---- MODULE Spec2Model ----
(***************************************************************************)
(* Resilient access layer of the artist-graph application:                 *)
(*   - the Source Router and Health Monitor of                             *)
(*     src/lib/musicbrainz/data-source.ts (replica first, API fallback,    *)
(*     cached replica health with a TTL),                                  *)
(*   - the replica queries of src/lib/musicbrainz/db-client.ts,            *)
(*   - the Request Throttle of src/lib/musicbrainz/client.ts.  That file   *)
(*     is not part of the sources at hand (only its tests are), so the     *)
(*     throttle is modelled from section 4.1 of the specification.         *)
(* Every asynchronous function is cut at its await points: one action per  *)
(* synchronous stretch of code.                                            *)
(***************************************************************************)
EXTENDS Integers, Naturals, Sequences, FiniteSets, TLC

\* ------------------------------------------------------------------------
\* Program constants
\* ------------------------------------------------------------------------
DB_CHECK_INTERVAL_MS == 30000

RATE_LIMIT_MS == 1100

\* the retry cap of the Upstream API Adapter
MAX_RETRIES == 3

\* ------------------------------------------------------------------------
\* Bounds of the model
\* ------------------------------------------------------------------------
\* number of calls made to the Source Router during one run
NCalls == 2

\* number of operations submitted directly to the throttle during one run
NClients == 3

\* number of distinct entities the submitted operations ask for
NEntities == 2

\* longest list of relationships handed to the Graph Builder
MaxRelationships == 3

\* longest list of nodes, and of edges, handed to ArtistGraph.merge
MaxPayload == 2

\* number of requests the UI makes to the expansion hook during one run
MaxRequests == 3

\* most rows the relationship query of the replica returns
MaxRows == 3

\* number of times the query of the autocomplete box changes during one run
MaxEdits == 3

\* the deepest expansion: ExpansionDepth = 1 | 2 | 3 | 4
MaxDepth == 4

\* number of different years among the dates handed to formatTenure, and
\* the first of them
NYears == 3

FirstYear == 1960

\* the clock is read every BigStep milliseconds while the Source Router is
\* observed, every SmallStep milliseconds while the throttle is
SmallStep == 550

BigStep == 15000

\* the clock stops MaxElapsed milliseconds after the start of a run of the
\* Source Router, MaxThrottleElapsed after the start of a run of the throttle
MaxElapsed == 30000

MaxThrottleElapsed == 2200

\* Date.now() when the process starts: later than both intervals after the
\* zero that lastDbCheck and lastRequestTime are initialised to
StartTime == DB_CHECK_INTERVAL_MS + RATE_LIMIT_MS

Calls == 1..(IF NCalls > NClients THEN NCalls ELSE NClients)

NoCall == 0

NoTime == -1

\* the logical operations of the Source Router
RouterOps == {"searchArtists", "getArtist", "getArtistRelationships", "getArtistLifeSpan"}

HealthOps == {"getHealthStatus", "forceHealthRecheck"}

\* what the public API answers to a dispatched request: data, or an error
\* (network error, HTTP status that is not OK)
ApiOutcomes == {"record", "error"}

\* the HTTP statuses of the responses that are not OK
HttpErrors == {"503", "500", "404"}

\* what the public API answers to a request of the adapter called directly
AdapterOutcomes == ApiOutcomes \cup HttpErrors

VARIABLES
  now,              \* Date.now()
  dbAvailable,      \* data-source.ts: "null" | "true" | "false"
  lastDbCheck,      \* data-source.ts
  requestQueue,     \* throttle: pending operations, oldest first
  lastRequestTime,  \* throttle: time of the last dispatch
  inFlight,         \* throttle: the operation being executed, or NoCall
  nextCall,         \* the next call to be made (calls are numbered in order)
  pc,               \* per call: position in its async function
  kind,             \* per call: the operation called
  probeNow,         \* per call: the `now` captured by isDbAvailable
  result,           \* per call: what the caller receives
  hist,             \* per call: what happened on the way (observation only)
  submitted,        \* operations in the order they were enqueued (observation)
  dispatched,       \* operations in the order they were dispatched (observation)
  lastDispatchAt,   \* time of the last dispatch (observation)
  lastFailTime,     \* time of the last replica query failure, NoTime after a
                    \* forced recheck (observation)
  verdictProbedAt,  \* start time of the probe behind the cached verdict (observation)
  artist,           \* Graph Builder: the root artist handed to build
  relationships,    \* Graph Builder: the relationships handed to build
  graph,            \* GraphViewModel.swift: the ArtistGraph
  newNodes,         \* ArtistGraph.merge: argument
  newEdges,         \* ArtistGraph.merge: argument
  expandedNodeId,   \* ArtistGraph.merge: argument
  stage,            \* Graph Builder: how far the run has come
  graphLog,         \* the graphs before each merge, oldest first (observation)
  tenureText,       \* formatTenure: the string returned
  isExpanding,      \* useGraphExpansion: state
  autoExpandComplete, \* useGraphExpansion: state
  expansionDepth,   \* useGraphExpansion: state
  expandedGraph,    \* useGraphExpansion: state
  expandProgress,   \* useGraphExpansion: state
  render,           \* useGraphExpansion: the state values the callbacks of
                    \* the last render closed over
  tasks,            \* useGraphExpansion: the expansions waiting on a fetch
  requests,         \* number of requests the UI has made
  lastRequest,      \* the last request of the UI (observation)
  finished,         \* the last multi-level expansion that ran to its end,
                    \* as a one-element list (observation)
  rows,             \* db-client.ts: the rows of the relationship query
  payload,          \* db-client.ts: the relationships returned
  mapperStage,      \* db-client.ts: how far getArtistRelationshipsFromDB has come
  query,            \* useAutocomplete: the query of the last render
  latestQueryRef,   \* useAutocomplete: latestQueryRef.current
  abortControllerRef, \* useAutocomplete: abortControllerRef.current
  timeoutId,        \* useAutocomplete: the pending debounce timer
  fetches,          \* useAutocomplete: the timer callbacks waiting on an await
  suggestions,      \* useAutocomplete: state
  isLoading,        \* useAutocomplete: state
  error,            \* useAutocomplete: state
  edits,            \* number of times the query has changed
  discarded         \* the requests whose outcome was dropped (observation)

routerVars == << now, dbAvailable, lastDbCheck, requestQueue, lastRequestTime,
                 inFlight, nextCall, pc, kind, probeNow, result, hist,
                 submitted, dispatched, lastDispatchAt,
                 lastFailTime, verdictProbedAt >>

builderVars == << artist, relationships, graph, newNodes, newEdges,
                  expandedNodeId, stage, graphLog, tenureText >>

hookVars == << isExpanding, autoExpandComplete, expansionDepth, expandedGraph,
               expandProgress, render, tasks, requests, lastRequest,
               finished >>

mapperVars == << rows, payload, mapperStage >>

autocompleteVars == << query, latestQueryRef, abortControllerRef, timeoutId,
                       fetches, suggestions, isLoading, error, edits, discarded >>

vars == << routerVars, builderVars, hookVars, mapperVars, autocompleteVars >>

NoResult == [status |-> "pending", source |-> "none", data |-> "none", available |-> "none"]

NoHist == [probed |-> FALSE, probeResult |-> "none", usedCache |-> FALSE,
           queried |-> 0, dbThrew |-> FALSE, notFound |-> FALSE,
           api |-> "none", inFailWindow |-> FALSE]

BoolStr(b) == IF b THEN "true" ELSE "false"

\* ------------------------------------------------------------------------
\* Health Monitor: isDbAvailable, resetDbAvailabilityCache
\* ------------------------------------------------------------------------
\* (variant: only a positive verdict is served from the cache)
UseCachedResultIfAvailable(avail, t, last) == avail = "true" /\ t - last < DB_CHECK_INTERVAL_MS

\* isDbAvailable: "Use cached result if recent"
UseCachedResult(avail, t, last) == avail # "null" /\ t - last < DB_CHECK_INTERVAL_MS

\* (variant: the reset leaves the cache as it is)
resetKeepsCache == [dbAvailable |-> dbAvailable, lastDbCheck |-> lastDbCheck]

\* resetDbAvailabilityCache
resetDbAvailabilityCache == [dbAvailable |-> "null", lastDbCheck |-> 0]

\* ------------------------------------------------------------------------
\* Replica queries (db-client.ts)
\* ------------------------------------------------------------------------
\* Does the replica query of operation k throw?  sqlOk: the SQL statements ran.
\* getArtistRelationshipsFromDB throws 'Artist not found' when getArtistFromDB
\* returns null; the other queries return null / undefined / [] instead.
ReplicaThrows(k, found, sqlOk) ==
  \/ ~sqlOk
  \/ k = "getArtistRelationships" /\ ~found

\* The data a replica query returns when it does not throw.
ReplicaData(k, found) == IF found THEN "record" ELSE "empty"

\* ------------------------------------------------------------------------
\* Source Router: the return statements of the four logical operations
\* ------------------------------------------------------------------------
\* (variant: the replica's result is labelled like the fallback's)
LocalResultLabelledApi(d) == [status |-> "ok", source |-> "api", data |-> d, available |-> "none"]

\* the return statement of the try block
LocalResult(d) == [status |-> "ok", source |-> "local", data |-> d, available |-> "none"]

\* (variant: the fallback result is labelled like the local one)
ApiResultLabelledLocal(d) == [status |-> "ok", source |-> "local", data |-> d, available |-> "none"]

\* "Fallback to API": the result built from what the API adapter returned
ApiResult(d) == [status |-> "ok", source |-> "api", data |-> d, available |-> "none"]

\* the API adapter rejected: the logical call rejects
FailedResult == [status |-> "failed", source |-> "none", data |-> "none", available |-> "none"]

\* getHealthStatus / POST health route
HealthResult(a) == [status |-> "ok", source |-> "none", data |-> "none", available |-> a]

\* (variant: the catch block leaves the health cache as it is)
MarkUnavailableNot(avail) == avail

\* catch block of a logical operation: "Mark DB as unavailable and fall
\* through to API"; the value is the health cache after the catch
MarkUnavailable(avail) == "false"

\* (variant: the replica exception is passed on to the caller)
AfterReplicaThrowReject == "reject"

\* catch block of a logical operation: where the call goes after a replica
\* exception ("api": the API adapter is called for this same call)
AfterReplicaThrow == "api"

\* ------------------------------------------------------------------------
\* Request Throttle (specification section 4.1)
\* ------------------------------------------------------------------------
\* (variant: the spacing is left out of the comparison)
IntervalElapsedNoSpacing(t, last) == t - last >= 0

\* the minimum spacing has passed since the last dispatch
IntervalElapsed(t, last) == t - last >= RATE_LIMIT_MS

\* (variant: the newest operation is served first)
NextInQueueNewest(q) == Len(q)

\* the operation served next: the oldest one
NextInQueue(q) == 1

\* the elements of sequence q
Range(q) == {q[i] : i \in 1..Len(q)}

\* the queue after operation at position i was taken
RemoveAt(q, i) == [j \in 1..(Len(q) - 1) |-> IF j < i THEN q[j] ELSE q[j + 1]]

\* (variant: a failure is swallowed, its caller is never told)
RecipientsFailureLost(c, ok, q) == IF ok THEN {c} ELSE {}

\* the callers that receive the outcome of operation c
Recipients(c, ok, q) == {c}

\* (variant: the running slot is not released when the operation failed)
AfterSettleStuckOnError(c, ok) == IF ok THEN NoCall ELSE -1

\* the throttle's running slot after operation c settled
AfterSettle(c, ok) == NoCall

\* the entity operation c asks for
Entity(c) == c % NEntities

\* (variant: an operation asking for an entity that is already queued is
\* merged with the queued one)
EnqueueDeduplicated(q, c) ==
  IF \E i \in 1..Len(q) : Entity(q[i]) = Entity(c) THEN q ELSE Append(q, c)

\* enqueue(operation): every submission is appended, none is merged with
\* an operation already queued
Enqueue(q, c) == Append(q, c)

\* (variant: the next operation is started whether or not one is running)
SlotFreeAlways(f) == TRUE

\* no operation is running: the throttle may start the next one
SlotFree(f) == f = NoCall

\* number of times operation c occurs in sequence q
Count(q, c) == Cardinality({i \in 1..Len(q) : q[i] = c})

\* (variant: one retry more than the cap)
ShouldRetryOnceMore(n) == n <= 1 + MAX_RETRIES

\* Upstream API Adapter: is a request that failed on its n-th attempt
\* submitted again?  The tests of searchArtists see one fetch per request
\* and the rejection after the first response that is not OK.
ShouldRetry(n) == FALSE

\* (variant: every status is reported with the generic message)
ErrorMessageGeneric(out) == "MusicBrainz API error: " \o out

\* Upstream API Adapter: the message of the error thrown for a response
\* with a status that is not OK
ErrorMessage(out) ==
  IF out = "503" THEN "MusicBrainz rate limit exceeded"
  ELSE "MusicBrainz API error: " \o out

\* what the caller receives when the adapter throws
RejectedResult(out) ==
  IF out \in HttpErrors THEN [FailedResult EXCEPT !.data = ErrorMessage(out)]
  ELSE FailedResult

ThrottleWaiting ==
  /\ requestQueue # << >>
  /\ SlotFree(inFlight)
  /\ ~IntervalElapsed(now, lastRequestTime)

\* ------------------------------------------------------------------------
\* Graph Builder (GraphViewModel.swift, ArtistDetailViewModel.swift)
\* ------------------------------------------------------------------------
\* A date string "YYYY", "YYYY-MM" or "YYYY-MM-DD" is the tuple of its
\* numbers; << >> is nil or the empty string.
NoDate == << >>

\* the nil of an Int?
NoYear == -1

\* the year that stands for "no year known" in getEarliestMemberYear
UnknownEarliestYear == 9999

RootId == "G"

\* Relationship.targetArtist == nil
NoArtist == "nil"

\* the artists related to the root
Members == {"A", "B", "C"}

\* attr.lowercased().contains(word), for the attributes of the model
Contains(attr, word) ==
  << attr, word >> \in { << "founder", "found" >>, << "founding", "found" >>,
                        << "founding", "founding" >>, << "original", "original" >>,
                        << "past", "past" >>, << "current", "current" >>,
                        << "minor", "minor" >> }

\* (variant: an unknown date parses to the year that stands for "no year
\* known")
parseYearUnknownAsDistant(dateString) ==
  IF dateString = NoDate THEN UnknownEarliestYear ELSE dateString[1]

\* parseYear: the first four characters of the date string as a number
parseYear(dateString) ==
  IF dateString = NoDate THEN NoYear ELSE dateString[1]

\* the loop of getEarliestMemberYear from relationship i on
RECURSIVE EarliestFrom(_, _, _)
EarliestFrom(rels, i, earliestYear) ==
  IF i > Len(rels) THEN earliestYear
  ELSE LET year == parseYear(rels[i].begin) IN
       EarliestFrom(rels, i + 1,
                    IF rels[i].type = "member_of" /\ year # NoYear /\ year < earliestYear
                    THEN year ELSE earliestYear)

\* (variant: only the begin year of the band is looked at)
getEarliestMemberYearOfBand(rels, bandStartYear) ==
  IF parseYear(bandStartYear) = NoYear THEN UnknownEarliestYear
  ELSE parseYear(bandStartYear)

getEarliestMemberYear(rels, bandStartYear) ==
  EarliestFrom(rels, 1,
               IF parseYear(bandStartYear) = NoYear THEN UnknownEarliestYear
               ELSE parseYear(bandStartYear))

\* (variant: the relationship type is not looked at)
isFoundingMemberAnyType(rel, earliestYear) ==
  \/ \E i \in 1..Len(rel.attributes) : Contains(rel.attributes[i], "found")
  \/ parseYear(rel.begin) # NoYear /\ parseYear(rel.begin) = earliestYear

isFoundingMember(rel, earliestYear) ==
  /\ rel.type = "member_of"
  /\ \/ \E i \in 1..Len(rel.attributes) : Contains(rel.attributes[i], "found")
     \/ parseYear(rel.begin) # NoYear /\ parseYear(rel.begin) = earliestYear

nonInstruments == << "founding", "original", "past", "current", "minor" >>

extractInstruments(attributes) ==
  SelectSeq(attributes,
            LAMBDA attr : ~\E k \in 1..Len(nonInstruments) : Contains(attr, nonInstruments[k]))

\* Array.uniqued: the first occurrence of every element, in order
uniqued(q) ==
  LET keep == {i \in 1..Len(q) : \A j \in 1..(i - 1) : q[j] # q[i]}
      rank(i) == Cardinality({j \in keep : j <= i})
  IN [k \in 1..Cardinality(keep) |-> q[CHOOSE i \in keep : rank(i) = k]]

\* prefix(n)
prefix(q, n) == IF Len(q) <= n THEN q ELSE SubSeq(q, 1, n)

\* flatMap { extractInstruments($0.attributes) }
RECURSIVE flatMapInstruments(_)
flatMapInstruments(rels) ==
  IF rels = << >> THEN << >>
  ELSE extractInstruments(Head(rels).attributes) \o flatMapInstruments(Tail(rels))

\* (variant: equal years are written as a range too)
formatTenureAlwaysRange(begin, end) ==
  IF parseYear(begin) = NoYear THEN ""
  ELSE IF parseYear(end) # NoYear
       THEN ToString(parseYear(begin)) \o "-" \o ToString(parseYear(end))
       ELSE ToString(parseYear(begin)) \o "-present"

\* formatTenure; "-" stands for the en dash of the source
formatTenure(begin, end) ==
  IF parseYear(begin) = NoYear THEN ""
  ELSE IF parseYear(end) # NoYear
       THEN IF parseYear(begin) = parseYear(end) THEN ToString(parseYear(begin))
            ELSE ToString(parseYear(begin)) \o "-" \o ToString(parseYear(end))
       ELSE ToString(parseYear(begin)) \o "-present"

\* GraphNode.init(from:isRoot:isFoundingMember:)
GraphNode(id, isRoot, founding) ==
  [id |-> id, isLoaded |-> FALSE, isRoot |-> isRoot,
   isFoundingMember |-> founding, instruments |-> << >>]

\* GraphEdge.init(from:tenure:); an empty tenure is stored as nil
GraphEdge(rel, tenure) ==
  [sourceId |-> rel.sourceArtistId, targetId |-> rel.targetArtistId,
   type |-> rel.type, tenure |-> tenure]

\* GraphEdge.id
EdgeId(edge) == edge.sourceId \o "-" \o edge.targetId \o "-" \o edge.type

\* ArtistGraph(): no nodes, no edges
EmptyGraph == [nodes |-> << >>, edges |-> << >>]

\* the private sets nodeIds and edgeIds of ArtistGraph
nodeIds(g) == {g.nodes[i].id : i \in 1..Len(g.nodes)}

edgeIds(g) == {EdgeId(g.edges[i]) : i \in 1..Len(g.edges)}

\* (variant: the node is appended whether or not its id is known)
addNodeUnguarded(g, node) == [g EXCEPT !.nodes = Append(g.nodes, node)]

addNode(g, node) ==
  IF node.id \in nodeIds(g) THEN g ELSE [g EXCEPT !.nodes = Append(g.nodes, node)]

\* (variant: an edge whose id is known replaces the edge that has it)
addEdgeReplacing(g, edge) ==
  IF EdgeId(edge) \in edgeIds(g)
  THEN [g EXCEPT !.edges = [i \in 1..Len(g.edges) |->
                              IF EdgeId(g.edges[i]) = EdgeId(edge) THEN edge ELSE g.edges[i]]]
  ELSE [g EXCEPT !.edges = Append(g.edges, edge)]

addEdge(g, edge) ==
  IF EdgeId(edge) \in edgeIds(g) THEN g ELSE [g EXCEPT !.edges = Append(g.edges, edge)]

markNodeLoaded(g, nodeId) ==
  [g EXCEPT !.nodes = [i \in 1..Len(g.nodes) |->
                         IF g.nodes[i].id = nodeId /\ \A j \in 1..(i - 1) : g.nodes[j].id # nodeId
                         THEN [g.nodes[i] EXCEPT !.isLoaded = TRUE]
                         ELSE g.nodes[i]]]

\* addNode / addEdge for every element of q, in order
RECURSIVE addNodes(_, _)
addNodes(g, q) == IF q = << >> THEN g ELSE addNodes(addNode(g, Head(q)), Tail(q))

RECURSIVE addEdges(_, _)
addEdges(g, q) == IF q = << >> THEN g ELSE addEdges(addEdge(g, Head(q)), Tail(q))

\* ArtistGraph.merge
merge(g, nodes, edges, nodeId) ==
  addEdges(addNodes(markNodeLoaded(g, nodeId), nodes), edges)

\* loadGraph: relationships.compactMap { $0.targetArtist }
relatedArtistsOf(rels) ==
  LET embedded == SelectSeq(rels, LAMBDA rel : rel.targetArtist # NoArtist)
  IN [i \in 1..Len(embedded) |-> embedded[i].targetArtist]

\* the relationships that link the root to a related artist
linking(rels, id) ==
  SelectSeq(rels, LAMBDA rel : rel.targetArtistId = id \/ rel.sourceArtistId = id)

\* ArtistGraph.build: the node of one related artist
relatedNode(rels, id, earliestYear) ==
  LET isFounder == \E i \in 1..Len(rels) :
                     /\ rels[i].targetArtistId = id \/ rels[i].sourceArtistId = id
                     /\ isFoundingMember(rels[i], earliestYear)
      instruments == prefix(uniqued(flatMapInstruments(linking(rels, id))), 3)
  IN [GraphNode(id, FALSE, isFounder) EXCEPT !.instruments = instruments]

\* ArtistGraph.build
build(root, rels, relatedArtists) ==
  LET earliestYear == getEarliestMemberYear(rels, root.lifeSpanBegin)
      nodes == [i \in 1..Len(relatedArtists) |-> relatedNode(rels, relatedArtists[i], earliestYear)]
      edges == [i \in 1..Len(rels) |->
                  LET tenure == formatTenure(rels[i].begin, rels[i].end)
                  IN GraphEdge(rels[i], IF tenure = "" THEN "nil" ELSE tenure)]
  IN addEdges(addNodes(addNode(EmptyGraph, GraphNode(root.id, TRUE, FALSE)), nodes), edges)

\* ------------------------------------------------------------------------
\* Graph Expansion Engine (useGraphExpansion, src/lib/graph/index.ts)
\* ------------------------------------------------------------------------
\* the artist the page shows (initialData.artist.id)
HookRoot == "r"

\* what getArtistRelationships returns as relatedArtists, per artist
Catalog ==
  [x \in {"r", "a", "b", "c", "d"} |->
     CASE x = "r" -> << "a", "b" >>
       [] x = "a" -> << "r", "b", "c" >>
       [] x = "b" -> << "r", "d" >>
       [] x = "c" -> << "a", "d" >>
       [] x = "d" -> << "b", "c" >>]

Artists == DOMAIN Catalog

\* the depth of a node that nodeDepths has no entry for
NoDepth == -1

\* expandedGraph === null
NullGraph == [nodes |-> << >>, loaded |-> {}]

\* expandProgress === null
NullProgress == [current |-> 0, total |-> 0]

\* buildGraphData: the queried artist, then its related artists, none loaded
buildGraphData(id) == [nodes |-> << id >> \o Catalog[id], loaded |-> {}]

\* mergeGraphData: the expanded node is marked loaded and the nodes that are
\* not in the graph yet are appended
mergeGraphData(g, newGraph, expandedId) ==
  [nodes |-> g.nodes \o SelectSeq(newGraph.nodes, LAMBDA n : n \notin Range(g.nodes)),
   loaded |-> g.loaded \cup ({expandedId} \cap Range(g.nodes))]

\* initialGraphData
initialGraphData == buildGraphData(HookRoot)

\* graphData = expandedGraph || initialGraphData
OrInitial(g) == IF g = NullGraph THEN initialGraphData ELSE g

\* the state values a render hands to the callbacks it creates
Snapshot ==
  [mounted |-> TRUE, isExpanding |-> isExpanding,
   autoExpandComplete |-> autoExpandComplete,
   expansionDepth |-> expansionDepth, expandedGraph |-> expandedGraph]

\* `isExpanding` as the callbacks of the last render see it
SeenExpanding(r) == r.isExpanding

\* (variant: the depth of every node of the new graph is set)
RecordDepthsOverwrite(depths, newGraph, depth) ==
  [n \in Artists |-> IF n \in Range(newGraph.nodes) THEN depth ELSE depths[n]]

\* the first entries win: nodeDepths.has(id) keeps the depth it has
RecordDepths(depths, newGraph, depth) ==
  [n \in Artists |-> IF depths[n] = NoDepth /\ n \in Range(newGraph.nodes)
                     THEN depth ELSE depths[n]]

\* (variant: every node that is not loaded, whatever its depth)
NodesToExpandAnyDepth(g, depths, level) ==
  SelectSeq(g.nodes, LAMBDA n : n \notin g.loaded)

\* nodesToExpand of a level
NodesToExpand(g, depths, level) ==
  SelectSeq(g.nodes, LAMBDA n : n \notin g.loaded /\ depths[n] = level)

\* (variant: the loop also runs for the level of the requested depth)
LevelToExpandInclusive(currentLevel, depth) == currentLevel <= depth

\* the loop condition `currentLevel < depth`
LevelToExpand(currentLevel, depth) == currentLevel < depth

\* `depth === 1`: the graph of the root payload is the result
DirectOnly(depth) == depth = 1

\* (variant: a failed fetch leaves isExpanding as it is)
isExpandingAfterSuccess(ok) == IF ok THEN FALSE ELSE isExpanding

\* isExpanding after the finally block of handleNodeExpand
isExpandingAfterFinally(ok) == FALSE

\* a single-node expansion waiting on its fetch
NodeTask(n, base) ==
  [kind |-> "node", node |-> n, graph |-> base, depth |-> 0, level |-> 0,
   todo |-> << n >>, i |-> 1, depths |-> [x \in Artists |-> NoDepth],
   fetched |-> << n >>, failed |-> {}]

\* a multi-level expansion waiting on the fetch of todo[i]; fetched: the
\* nodes it has asked for so far, failed: those whose fetch was rejected
\* (observation)
MultiTask(g, depth, level, todo, i, depths, fetched, failed) ==
  [kind |-> "multi", node |-> todo[i], graph |-> g, depth |-> depth,
   level |-> level, todo |-> todo, i |-> i, depths |-> depths,
   fetched |-> Append(fetched, todo[i]), failed |-> failed]

\* (variant: a rejected fetch is merged like a resolved one)
currentGraphAfterAnyFetch(task, ok) ==
  mergeGraphData(task.graph, buildGraphData(task.node), task.node)

\* currentGraph after the try/catch around one fetch
currentGraphAfterFetch(task, ok) ==
  IF ok THEN mergeGraphData(task.graph, buildGraphData(task.node), task.node)
  ELSE task.graph

\* the sequence without its element at position i
Without(q, i) == [j \in 1..(Len(q) - 1) |-> IF j < i THEN q[j] ELSE q[j + 1]]

\* ------------------------------------------------------------------------
\* Initial state: module-level state of data-source.ts and of the throttle
\* ------------------------------------------------------------------------
RouterInit ==
  /\ now = StartTime
  /\ dbAvailable = "null"
  /\ lastDbCheck = 0
  /\ requestQueue = << >>
  /\ lastRequestTime = 0
  /\ inFlight = NoCall
  /\ nextCall = 1
  /\ pc = [c \in Calls |-> "idle"]
  /\ kind = [c \in Calls |-> "none"]
  /\ probeNow = [c \in Calls |-> NoTime]
  /\ result = [c \in Calls |-> NoResult]
  /\ hist = [c \in Calls |-> NoHist]
  /\ submitted = << >>
  /\ dispatched = << >>
  /\ lastDispatchAt = NoTime
  /\ lastFailTime = NoTime
  /\ verdictProbedAt = NoTime

\* no graph is being built or merged
BuilderIdle ==
  /\ artist = [id |-> RootId, lifeSpanBegin |-> NoDate]
  /\ relationships = << >>
  /\ graph = EmptyGraph
  /\ newNodes = << >>
  /\ newEdges = << >>
  /\ expandedNodeId = "none"
  /\ stage = "idle"
  /\ graphLog = << >>
  /\ tenureText = ""

\* the hook before its first render; initialData is there
HookIdle ==
  /\ isExpanding = FALSE
  /\ autoExpandComplete = FALSE
  /\ expansionDepth = 1
  /\ expandedGraph = NullGraph
  /\ expandProgress = NullProgress
  /\ render = [Snapshot EXCEPT !.mounted = FALSE]
  /\ tasks = << >>
  /\ requests = 0
  /\ lastRequest = "none"
  /\ finished = << >>

\* getArtistRelationshipsFromDB has not been called
MapperIdle ==
  /\ rows = << >>
  /\ payload = << >>
  /\ mapperStage = "idle"

\* useAutocomplete(query) is mounted with an empty query
NoController == 0

NoTimer == [query |-> "", gen |-> 0]

NoError == "null"

AutocompleteIdle ==
  /\ query = ""
  /\ latestQueryRef = ""
  /\ abortControllerRef = NoController
  /\ timeoutId = NoTimer
  /\ fetches = << >>
  /\ suggestions = << >>
  /\ isLoading = FALSE
  /\ error = NoError
  /\ edits = 0
  /\ discarded = {}

Init == RouterInit /\ BuilderIdle /\ HookIdle /\ MapperIdle /\ AutocompleteIdle

\* ------------------------------------------------------------------------
\* Environment
\* ------------------------------------------------------------------------
\* d milliseconds pass; past the end of the run (horizon) time passes only
\* while the throttle waits out its interval
Tick(d, horizon) ==
  /\ UNCHANGED << builderVars, hookVars, mapperVars, autocompleteVars >>
  /\ \/ now + d <= StartTime + horizon
     \/ ThrottleWaiting
  /\ now' = now + d
  /\ UNCHANGED << dbAvailable, lastDbCheck, requestQueue, lastRequestTime,
                  inFlight, nextCall, pc, kind, probeNow, result, hist,
                  submitted, dispatched, lastDispatchAt, lastFailTime,
                  verdictProbedAt >>

\* ------------------------------------------------------------------------
\* Source Router
\* ------------------------------------------------------------------------
\* the call hands its request to the API adapter, which submits it to the
\* throttle
CallApi(c) ==
  /\ requestQueue' = Enqueue(requestQueue, c)
  /\ submitted' = Append(submitted, c)

InFailWindow ==
  /\ lastFailTime # NoTime
  /\ now - lastFailTime < DB_CHECK_INTERVAL_MS

\* what the call saw of the health cache when it started
StartHist(c) ==
  [NoHist EXCEPT !.inFailWindow = InFailWindow]

\* searchArtists / getArtist / getArtistRelationships / getArtistLifeSpan,
\* from entry to the first await that leaves the function:
\* isDbAvailable answers from its cache or starts testConnection
StartCall(c, k) ==
  /\ UNCHANGED << builderVars, hookVars, mapperVars, autocompleteVars >>
  /\ c = nextCall
  /\ pc[c] = "idle"
  /\ c <= NCalls
  /\ nextCall' = nextCall + 1
  /\ kind' = [kind EXCEPT ![c] = k]
  /\ IF UseCachedResult(dbAvailable, now, lastDbCheck)
     THEN IF dbAvailable = "true"
          THEN /\ pc' = [pc EXCEPT ![c] = "dbQuery"]
               /\ hist' = [hist EXCEPT ![c] = [StartHist(c) EXCEPT !.usedCache = TRUE, !.queried = 1]]
               /\ UNCHANGED << requestQueue, submitted, probeNow >>
          ELSE /\ pc' = [pc EXCEPT ![c] = "apiWait"]
               /\ hist' = [hist EXCEPT ![c] = [StartHist(c) EXCEPT !.usedCache = TRUE]]
               /\ CallApi(c)
               /\ UNCHANGED probeNow
     ELSE /\ pc' = [pc EXCEPT ![c] = "probing"]
          /\ probeNow' = [probeNow EXCEPT ![c] = now]
          /\ hist' = [hist EXCEPT ![c] = [StartHist(c) EXCEPT !.probed = TRUE]]
          /\ UNCHANGED << requestQueue, submitted >>
  /\ UNCHANGED << now, dbAvailable, lastDbCheck, lastRequestTime, inFlight,
                  result, dispatched, lastDispatchAt, lastFailTime, verdictProbedAt >>

\* getHealthStatus (GET health route): isDbAvailable answers from its cache
\* or starts testConnection
GetHealthStatus(c) ==
  /\ UNCHANGED << builderVars, hookVars, mapperVars, autocompleteVars >>
  /\ c = nextCall
  /\ pc[c] = "idle"
  /\ c <= NCalls
  /\ nextCall' = nextCall + 1
  /\ kind' = [kind EXCEPT ![c] = "getHealthStatus"]
  /\ IF UseCachedResult(dbAvailable, now, lastDbCheck)
     THEN /\ pc' = [pc EXCEPT ![c] = "done"]
          /\ result' = [result EXCEPT ![c] = HealthResult(dbAvailable)]
          /\ hist' = [hist EXCEPT ![c] = [StartHist(c) EXCEPT !.usedCache = TRUE]]
          /\ UNCHANGED probeNow
     ELSE /\ pc' = [pc EXCEPT ![c] = "probing"]
          /\ probeNow' = [probeNow EXCEPT ![c] = now]
          /\ hist' = [hist EXCEPT ![c] = [StartHist(c) EXCEPT !.probed = TRUE]]
          /\ UNCHANGED result
  /\ UNCHANGED << now, dbAvailable, lastDbCheck, requestQueue,
                  lastRequestTime, inFlight,  submitted, dispatched,
                  lastDispatchAt, lastFailTime, verdictProbedAt >>

\* POST health route: resetDbAvailabilityCache(), then buildHealthResponse()
\* -> getHealthStatus() -> isDbAvailable(), all before the first await
ForceHealthRecheck(c) ==
  /\ UNCHANGED << builderVars, hookVars, mapperVars, autocompleteVars >>
  /\ c = nextCall
  /\ pc[c] = "idle"
  /\ c <= NCalls
  /\ nextCall' = nextCall + 1
  /\ kind' = [kind EXCEPT ![c] = "forceHealthRecheck"]
  /\ LET reset == resetDbAvailabilityCache IN
       /\ IF UseCachedResult(reset.dbAvailable, now, reset.lastDbCheck)
          THEN /\ pc' = [pc EXCEPT ![c] = "done"]
               /\ result' = [result EXCEPT ![c] = HealthResult(reset.dbAvailable)]
               /\ hist' = [hist EXCEPT ![c] = [StartHist(c) EXCEPT !.usedCache = TRUE]]
               /\ UNCHANGED probeNow
          ELSE /\ pc' = [pc EXCEPT ![c] = "probing"]
               /\ probeNow' = [probeNow EXCEPT ![c] = now]
               /\ hist' = [hist EXCEPT ![c] = [StartHist(c) EXCEPT !.probed = TRUE]]
               /\ UNCHANGED result
       /\ dbAvailable' = reset.dbAvailable
       /\ lastDbCheck' = reset.lastDbCheck
       /\ verdictProbedAt' = IF reset.dbAvailable = "null" THEN NoTime ELSE verdictProbedAt
  /\ lastFailTime' = NoTime
  /\ UNCHANGED << now, requestQueue, lastRequestTime, inFlight,
                  submitted, dispatched, lastDispatchAt >>

\* isDbAvailable after `await testConnection()`: the verdict and the `now`
\* captured before the await are stored; then the caller continues up to its
\* next await.  r: what testConnection returned.
ProbeDone(c, r) ==
  /\ UNCHANGED << builderVars, hookVars, mapperVars, autocompleteVars >>
  /\ pc[c] = "probing"
  /\ dbAvailable' = BoolStr(r)
  /\ lastDbCheck' = probeNow[c]
  /\ verdictProbedAt' = probeNow[c]
  /\ IF kind[c] \in HealthOps
     THEN /\ pc' = [pc EXCEPT ![c] = "done"]
          /\ result' = [result EXCEPT ![c] = HealthResult(BoolStr(r))]
          /\ hist' = [hist EXCEPT ![c].probeResult = BoolStr(r)]
          /\ UNCHANGED << requestQueue, submitted >>
     ELSE IF r
          THEN /\ pc' = [pc EXCEPT ![c] = "dbQuery"]
               /\ hist' = [hist EXCEPT ![c].probeResult = BoolStr(r), ![c].queried = 1]
               /\ UNCHANGED << requestQueue, submitted, result >>
          ELSE /\ pc' = [pc EXCEPT ![c] = "apiWait"]
               /\ hist' = [hist EXCEPT ![c].probeResult = BoolStr(r)]
               /\ CallApi(c)
               /\ UNCHANGED result
  /\ probeNow' = [probeNow EXCEPT ![c] = NoTime]
  /\ UNCHANGED << now, lastRequestTime, inFlight, nextCall, kind,
                  dispatched, lastDispatchAt, lastFailTime >>

\* the replica query of a logical operation settles: the try block returns
\* the local result, or the catch block demotes the replica and the call
\* goes on to the API adapter.  sqlOk: the SQL statements ran; found: they
\* returned a row for the requested entity.
DbQueryDone(c, sqlOk, found) ==
  /\ UNCHANGED << builderVars, hookVars, mapperVars, autocompleteVars >>
  /\ pc[c] = "dbQuery"
  /\ IF ReplicaThrows(kind[c], found, sqlOk)
     THEN /\ dbAvailable' = MarkUnavailable(dbAvailable)
          /\ lastFailTime' = now
          /\ IF AfterReplicaThrow = "api"
             THEN /\ pc' = [pc EXCEPT ![c] = "apiWait"]
                  /\ hist' = [hist EXCEPT ![c].dbThrew = TRUE,
                                          ![c].notFound = sqlOk /\ ~found]
                  /\ CallApi(c)
                  /\ UNCHANGED result
             ELSE /\ pc' = [pc EXCEPT ![c] = "done"]
                  /\ hist' = [hist EXCEPT ![c].dbThrew = TRUE,
                                          ![c].notFound = sqlOk /\ ~found]
                  /\ result' = [result EXCEPT ![c] = FailedResult]
                  /\ UNCHANGED << requestQueue, submitted >>
     ELSE /\ pc' = [pc EXCEPT ![c] = "done"]
          /\ result' = [result EXCEPT ![c] = LocalResult(ReplicaData(kind[c], found))]
          /\ hist' = [hist EXCEPT ![c].notFound = ~found]
          /\ UNCHANGED << dbAvailable, requestQueue, submitted, lastFailTime >>
  /\ UNCHANGED << now, lastDbCheck, lastRequestTime, inFlight, nextCall,
                  kind, probeNow, dispatched, lastDispatchAt,
                  verdictProbedAt >>

\* ------------------------------------------------------------------------
\* Direct API client (client.ts, used for client-side calls)
\* ------------------------------------------------------------------------
\* a caller invokes the API adapter directly; the adapter submits the request
\* to the throttle
Submit(c) ==
  /\ UNCHANGED << builderVars, hookVars, mapperVars, autocompleteVars >>
  /\ c = nextCall
  /\ c <= NClients
  /\ pc[c] = "idle"
  /\ nextCall' = nextCall + 1
  /\ kind' = [kind EXCEPT ![c] = "direct"]
  /\ pc' = [pc EXCEPT ![c] = "apiWait"]
  /\ CallApi(c)
  /\ UNCHANGED << now, dbAvailable, lastDbCheck, lastRequestTime, inFlight,
                  probeNow, result, hist, dispatched, lastDispatchAt,
                  lastFailTime, verdictProbedAt >>

\* ------------------------------------------------------------------------
\* Request Throttle
\* ------------------------------------------------------------------------
\* the throttle takes the next operation off its queue and starts it
Dispatch ==
  /\ UNCHANGED << builderVars, hookVars, mapperVars, autocompleteVars >>
  /\ requestQueue # << >>
  /\ SlotFree(inFlight)
  /\ IntervalElapsed(now, lastRequestTime)
  /\ LET i == NextInQueue(requestQueue) IN
       /\ inFlight' = requestQueue[i]
       /\ requestQueue' = RemoveAt(requestQueue, i)
       /\ dispatched' = Append(dispatched, requestQueue[i])
  /\ lastRequestTime' = now
  /\ lastDispatchAt' = now
  /\ UNCHANGED << now, dbAvailable, lastDbCheck, nextCall, pc, kind,
                  probeNow, result, hist, submitted, lastFailTime, verdictProbedAt >>

\* the operation in flight settles and its outcome is handed to its caller,
\* whose logical call returns.  out: what the public API answered.
Settle(out) ==
  /\ UNCHANGED << builderVars, hookVars, mapperVars, autocompleteVars >>
  /\ inFlight \in Calls
  /\ LET c == inFlight
         ok == out = "record"
         retry == ~ok /\ ShouldRetry(Count(dispatched, c))
         to == IF retry THEN {} ELSE Recipients(c, ok, requestQueue)
     IN /\ pc' = [x \in Calls |-> IF x \in to THEN "done" ELSE pc[x]]
        /\ result' = [x \in Calls |-> IF x \in to
                                      THEN IF ok THEN ApiResult(out) ELSE RejectedResult(out)
                                      ELSE result[x]]
        /\ hist' = [x \in Calls |-> IF x \in to
                                    THEN [hist[x] EXCEPT !.api = IF x = c THEN out ELSE "none"]
                                    ELSE hist[x]]
        /\ requestQueue' = IF retry THEN Enqueue(requestQueue, c)
                           ELSE SelectSeq(requestQueue, LAMBDA x : x \notin to)
        /\ submitted' = IF retry THEN Append(submitted, c) ELSE submitted
        /\ inFlight' = AfterSettle(c, ok)
  /\ UNCHANGED << now, dbAvailable, lastDbCheck, lastRequestTime, nextCall,
                  kind, probeNow, dispatched, lastDispatchAt,
                  lastFailTime, verdictProbedAt >>

\* ------------------------------------------------------------------------
\* Graph Builder: inputs and runs
\* ------------------------------------------------------------------------
\* all sequences over S of length at most n
SeqsUpTo(S, n) == UNION {[1..k -> S] : k \in 0..n}

\* the begin dates of the relationships and the life span of the root
BeginDates == {NoDate, << 1960 >>, << 1962, 3 >>}

BandStartDates == {NoDate, << 1960 >>}

\* the relationships MusicBrainzClient.fetchRelationships may return for the
\* root: memberships with or without a founder attribute, collaborations
RelationshipInputs ==
  {[type |-> "member_of", sourceArtistId |-> RootId, targetArtistId |-> m,
    targetArtist |-> m,     attributes |-> a, begin |-> b, end |-> NoDate] :
      m \in Members, a \in {<< >>, << "founder" >>}, b \in BeginDates}
  \cup
  {[type |-> "collaboration", sourceArtistId |-> RootId, targetArtistId |-> m,
    targetArtist |-> m,     attributes |-> << >>, begin |-> b, end |-> NoDate] :
      m \in Members, b \in BeginDates}

\* relationships of the root whose target artist is or is not embedded in
\* the payload (Relationship.targetArtist is optional)
SparseRelationshipInputs ==
  {[type |-> t, sourceArtistId |-> RootId, targetArtistId |-> m,
    targetArtist |-> IF embedded THEN m ELSE NoArtist,
    attributes |-> << >>, begin |-> << FirstYear >>, end |-> NoDate] :
      t \in {"member_of", "collaboration"}, m \in Members, embedded \in BOOLEAN}

\* fetchRelationships has returned for some root artist
BuilderInit ==
  /\ RouterInit
  /\ HookIdle
  /\ MapperIdle
  /\ AutocompleteIdle
  /\ artist \in {[id |-> RootId, lifeSpanBegin |-> b] : b \in BandStartDates}
  /\ relationships \in SeqsUpTo(RelationshipInputs, MaxRelationships)
  /\ graph = EmptyGraph
  /\ newNodes = << >>
  /\ newEdges = << >>
  /\ expandedNodeId = "none"
  /\ stage = "fetched"
  /\ graphLog = << >>
  /\ tenureText = ""

\* GraphViewModel.loadGraph after `try await client.fetchRelationships`
loadGraph ==
  /\ stage = "fetched"
  /\ graph' = build(artist, relationships, relatedArtistsOf(relationships))
  /\ stage' = "built"
  /\ UNCHANGED << artist, relationships, newNodes, newEdges, expandedNodeId,
                  graphLog, tenureText >>
  /\ UNCHANGED << routerVars, hookVars, mapperVars, autocompleteVars >>

\* fetchRelationships has returned a payload that does not embed every
\* target artist
SparseInit ==
  /\ RouterInit
  /\ HookIdle
  /\ MapperIdle
  /\ AutocompleteIdle
  /\ artist = [id |-> RootId, lifeSpanBegin |-> NoDate]
  /\ relationships \in SeqsUpTo(SparseRelationshipInputs, MaxRelationships)
  /\ graph = EmptyGraph
  /\ newNodes = << >>
  /\ newEdges = << >>
  /\ expandedNodeId = "none"
  /\ stage = "fetched"
  /\ graphLog = << >>
  /\ tenureText = ""

\* the date strings of a relationship: nil or empty, a text whose first
\* four characters are not a number, "YYYY", "YYYY-MM" and "YYYY-MM-DD"
TenureDates ==
  {NoDate, << NoYear >>}
  \cup {<< y >> : y \in FirstYear..(FirstYear + NYears - 1)}
  \cup {<< y, 3 >> : y \in FirstYear..(FirstYear + NYears - 1)}
  \cup {<< y, 3, 15 >> : y \in FirstYear..(FirstYear + NYears - 1)}

\* a relationship whose tenure is to be formatted
TenureInit ==
  /\ RouterInit
  /\ HookIdle
  /\ MapperIdle
  /\ AutocompleteIdle
  /\ artist = [id |-> RootId, lifeSpanBegin |-> NoDate]
  /\ relationships \in {<< [type |-> "member_of", sourceArtistId |-> RootId,
                            targetArtistId |-> "A", targetArtist |-> "A",
                            attributes |-> << >>,
                            begin |-> b, end |-> e] >> : b \in TenureDates, e \in TenureDates}
  /\ graph = EmptyGraph
  /\ newNodes = << >>
  /\ newEdges = << >>
  /\ expandedNodeId = "none"
  /\ stage = "dates"
  /\ graphLog = << >>
  /\ tenureText = ""

\* formatTenure(begin: rel.begin, end: rel.end)
formatTenureCall ==
  /\ stage = "dates"
  /\ tenureText' = formatTenure(relationships[1].begin, relationships[1].end)
  /\ stage' = "formatted"
  /\ UNCHANGED << artist, relationships, graph, newNodes, newEdges, expandedNodeId,
                  graphLog >>
  /\ UNCHANGED << routerVars, hookVars, mapperVars, autocompleteVars >>

\* the nodes and edges ArtistGraph.merge is called with
MergeIds == {"X", "Y"}

MergeNodes ==
  {[GraphNode(id, FALSE, FALSE) EXCEPT !.isLoaded = l] : id \in MergeIds, l \in BOOLEAN}

MergeEdges ==
  {[sourceId |-> "X", targetId |-> "Y", type |-> "member_of", tenure |-> t] :
      t \in {"nil", "1960-present"}}
  \cup {[sourceId |-> "Y", targetId |-> "X", type |-> "member_of", tenure |-> "nil"]}

\* the sequence has no two nodes / no two edges with the same id
DistinctNodeIds(q) == \A i, j \in 1..Len(q) : q[i].id = q[j].id => i = j

DistinctEdgeIds(q) == \A i, j \in 1..Len(q) : EdgeId(q[i]) = EdgeId(q[j]) => i = j

\* the graphs addNode and addEdge can have produced
MergeGraphs ==
  {g \in [nodes : SeqsUpTo(MergeNodes, Cardinality(MergeIds)),
          edges : SeqsUpTo(MergeEdges, Cardinality(MergeIds))] :
     DistinctNodeIds(g.nodes) /\ DistinctEdgeIds(g.edges)}

\* a graph and a payload to merge into it
MergeInit ==
  /\ RouterInit
  /\ HookIdle
  /\ MapperIdle
  /\ AutocompleteIdle
  /\ artist = [id |-> RootId, lifeSpanBegin |-> NoDate]
  /\ relationships = << >>
  /\ graph \in MergeGraphs
  /\ newNodes \in SeqsUpTo(MergeNodes, MaxPayload)
  /\ newEdges \in SeqsUpTo(MergeEdges, MaxPayload)
  /\ expandedNodeId \in MergeIds
  /\ stage = "payload"
  /\ graphLog = << >>
  /\ tenureText = ""

\* graph.merge(newNodes:newEdges:expandedNodeId:)
MergeOnce ==
  /\ stage = "payload"
  /\ graph' = merge(graph, newNodes, newEdges, expandedNodeId)
  /\ graphLog' = Append(graphLog, graph)
  /\ stage' = "merged"
  /\ UNCHANGED << artist, relationships, newNodes, newEdges, expandedNodeId, tenureText >>
  /\ UNCHANGED << routerVars, hookVars, mapperVars, autocompleteVars >>

\* graph.merge with the same arguments once more
MergeAgain ==
  /\ stage = "merged"
  /\ graph' = merge(graph, newNodes, newEdges, expandedNodeId)
  /\ graphLog' = Append(graphLog, graph)
  /\ stage' = "mergedAgain"
  /\ UNCHANGED << artist, relationships, newNodes, newEdges, expandedNodeId, tenureText >>
  /\ UNCHANGED << routerVars, hookVars, mapperVars, autocompleteVars >>

\* ------------------------------------------------------------------------
\* Graph Expansion Engine: the hook's callbacks
\* ------------------------------------------------------------------------
\* (variant: the relationships of the root are fetched again, whatever the
\* depth)
performMultiLevelExpansionRefetching(r, depth) ==
  /\ autoExpandComplete' = TRUE
  /\ isExpanding' = TRUE
  /\ tasks' = Append(tasks, NodeTask(HookRoot, buildGraphData(HookRoot)))
  /\ UNCHANGED << expandedGraph, expandProgress >>

\* performMultiLevelExpansion(depth), created by render r, from its entry to
\* its first await or to its return
performMultiLevelExpansion(r, depth) ==
  IF SeenExpanding(r)
  THEN UNCHANGED << isExpanding, autoExpandComplete, expandedGraph, expandProgress, tasks >>
  ELSE LET currentGraph == buildGraphData(HookRoot)
           depths == RecordDepths([x \in Artists |-> IF x = HookRoot THEN 0 ELSE NoDepth],
                                  currentGraph, 1)
           todo == NodesToExpand(currentGraph, depths, 1)
       IN /\ autoExpandComplete' = TRUE
          /\ IF DirectOnly(depth)
             THEN /\ expandedGraph' = currentGraph
                  /\ isExpanding' = FALSE
                  /\ UNCHANGED << expandProgress, tasks >>
             ELSE IF ~LevelToExpand(1, depth) \/ todo = << >>
                  THEN /\ expandedGraph' = currentGraph
                       /\ isExpanding' = FALSE
                       /\ expandProgress' = NullProgress
                       /\ UNCHANGED tasks
                  ELSE /\ isExpanding' = TRUE
                       /\ expandProgress' = [current |-> 1, total |-> Len(todo)]
                       /\ tasks' = Append(tasks, MultiTask(currentGraph, depth, 1, todo, 1,
                                                           depths, << >>, {}))
                       /\ UNCHANGED expandedGraph

\* a dependency of the auto-expand effect differs from the last render
EffectDepsChanged ==
  \/ ~render.mounted
  \/ render.autoExpandComplete # autoExpandComplete
  \/ render.isExpanding # isExpanding
  \/ render.expansionDepth # expansionDepth

\* React renders the component with the current state: the callbacks are
\* created anew and the auto-expand effect runs if a dependency changed
Render ==
  /\ render # Snapshot
  /\ render' = Snapshot
  /\ IF EffectDepsChanged /\ ~autoExpandComplete /\ ~isExpanding
     THEN performMultiLevelExpansion(Snapshot, expansionDepth)
     ELSE UNCHANGED << isExpanding, autoExpandComplete, expandedGraph, expandProgress, tasks >>
  /\ UNCHANGED << expansionDepth, requests, lastRequest, finished >>
  /\ UNCHANGED << routerVars, builderVars, mapperVars, autocompleteVars >>

\* handleNodeExpand(nodeId), from its entry to its await
handleNodeExpand(nodeId) ==
  /\ render.mounted
  /\ requests < MaxRequests
  /\ nodeId \in Range(OrInitial(render.expandedGraph).nodes)
  /\ requests' = requests + 1
  /\ lastRequest' = "expand"
  /\ IF SeenExpanding(render)
     THEN UNCHANGED << isExpanding, tasks >>
     ELSE /\ isExpanding' = TRUE
          /\ tasks' = Append(tasks, NodeTask(nodeId, OrInitial(render.expandedGraph)))
  /\ UNCHANGED << autoExpandComplete, expansionDepth, expandedGraph, expandProgress,
                  render, finished >>
  /\ UNCHANGED << routerVars, builderVars, mapperVars, autocompleteVars >>

handleDepthChange(newDepth) ==
  /\ render.mounted
  /\ requests < MaxRequests
  /\ requests' = requests + 1
  /\ lastRequest' = "depth"
  /\ IF newDepth = render.expansionDepth \/ SeenExpanding(render)
     THEN UNCHANGED << expansionDepth, autoExpandComplete, expandedGraph >>
     ELSE /\ expansionDepth' = newDepth
          /\ autoExpandComplete' = FALSE
          /\ expandedGraph' = NullGraph
  /\ UNCHANGED << isExpanding, expandProgress, render, tasks, finished >>
  /\ UNCHANGED << routerVars, builderVars, mapperVars, autocompleteVars >>

handleResetGraph ==
  /\ render.mounted
  /\ requests < MaxRequests
  /\ requests' = requests + 1
  /\ lastRequest' = "reset"
  /\ expandedGraph' = NullGraph
  /\ autoExpandComplete' = FALSE
  /\ UNCHANGED << isExpanding, expansionDepth, expandProgress, render, tasks, finished >>
  /\ UNCHANGED << routerVars, builderVars, mapperVars, autocompleteVars >>

\* `await getArtistRelationships(...)` of expansion t settles (ok: it
\* resolved) and the expansion runs on to its next await or to its end
FetchDone(t, ok) ==
  /\ t \in 1..Len(tasks)
  /\ LET task == tasks[t]
         newGraph == buildGraphData(task.node)
         merged == currentGraphAfterFetch(task, ok)
         depths == IF ok THEN RecordDepths(task.depths, newGraph, task.level + 1) ELSE task.depths
         failed == IF ok THEN task.failed ELSE task.failed \cup {task.node}
         next == NodesToExpand(merged, depths, task.level + 1)
     IN IF task.kind = "node"
        THEN /\ expandedGraph' = IF ok THEN merged ELSE expandedGraph
             /\ isExpanding' = isExpandingAfterFinally(ok)
             /\ tasks' = Without(tasks, t)
             /\ UNCHANGED << expandProgress, finished >>
        ELSE IF task.i < Len(task.todo)
        THEN /\ tasks' = [tasks EXCEPT ![t] = MultiTask(merged, task.depth, task.level,
                                                        task.todo, task.i + 1, depths,
                                                        task.fetched, failed)]
             /\ expandProgress' = [current |-> task.i + 1, total |-> Len(task.todo)]
             /\ UNCHANGED << expandedGraph, isExpanding, finished >>
        ELSE IF LevelToExpand(task.level + 1, task.depth) /\ next # << >>
        THEN /\ tasks' = [tasks EXCEPT ![t] = MultiTask(merged, task.depth, task.level + 1,
                                                        next, 1, depths,
                                                        task.fetched, failed)]
             /\ expandProgress' = [current |-> 1, total |-> Len(next)]
             /\ UNCHANGED << expandedGraph, isExpanding, finished >>
        ELSE /\ expandedGraph' = merged
             /\ isExpanding' = FALSE
             /\ expandProgress' = NullProgress
             /\ tasks' = Without(tasks, t)
             /\ finished' = << [task EXCEPT !.graph = merged, !.depths = depths,
                                            !.failed = failed] >>
  /\ UNCHANGED << autoExpandComplete, expansionDepth, render, requests, lastRequest >>
  /\ UNCHANGED << routerVars, builderVars, mapperVars, autocompleteVars >>

\* ------------------------------------------------------------------------
\* Replica queries: getArtistRelationshipsFromDB (db-client.ts)
\* ------------------------------------------------------------------------
\* the artist the relationships are asked for, and the artists at the other
\* end of its links
QueriedGid == "q"

RelatedGids == {"x", "y"}

\* link_type.name of the rows: types the mapping knows (one of them written
\* with capitals), a type that is skipped, types nobody has listed
LinkTypeNames ==
  {"member of band", "Member of band", "vocal", "tribute", "teacher", "married"}

\* String.prototype.toLowerCase on the names above
toLowerCase(name) == IF name = "Member of band" THEN "member of band" ELSE name

\* typeMap
typeMap ==
  [linkType \in {"member of band", "founder", "collaboration", "vocal", "instrument",
                 "producer", "influenced by", "subgroup", "supporting musician"} |->
     CASE linkType = "member of band" -> "member_of"
       [] linkType = "founder" -> "founder_of"
       [] linkType = "collaboration" -> "collaboration"
       [] linkType = "vocal" -> "collaboration"
       [] linkType = "instrument" -> "collaboration"
       [] linkType = "producer" -> "producer"
       [] linkType = "influenced by" -> "influenced_by"
       [] linkType = "subgroup" -> "side_project"
       [] linkType = "supporting musician" -> "touring_member"]

\* skipTypes
skipTypes == {"tribute", "is person", "named after"}

\* (variant: a type the mapping does not know is skipped as well)
SkippedOrUnknown(linkType) == linkType \in skipTypes \/ linkType \notin DOMAIN typeMap

\* `if (skipTypes.has(linkType)) continue`
Skipped(linkType) == linkType \in skipTypes

\* typeMap[linkType] || 'collaboration'
mappedType(linkType) ==
  IF linkType \in DOMAIN typeMap THEN typeMap[linkType] ELSE "collaboration"

\* the rows: links from the queried artist to a related one
DbRows ==
  {[entity0_gid |-> QueriedGid, entity1_gid |-> e, link_type_name |-> n] :
      e \in RelatedGids, n \in LinkTypeNames}

\* the relationship pushed for one row
RelationshipOfRow(row) ==
  [source |-> row.entity0_gid, target |-> row.entity1_gid,
   type |-> mappedType(toLowerCase(row.link_type_name))]

\* the loop over the rows
RECURSIVE RowsToRelationships(_)
RowsToRelationships(q) ==
  IF q = << >> THEN << >>
  ELSE IF Skipped(toLowerCase(Head(q).link_type_name))
       THEN RowsToRelationships(Tail(q))
       ELSE << RelationshipOfRow(Head(q)) >> \o RowsToRelationships(Tail(q))

\* `query<DbRelationship>(sql, [mbid])` has returned its rows
MapperInit ==
  /\ RouterInit
  /\ BuilderIdle
  /\ HookIdle
  /\ AutocompleteIdle
  /\ rows \in SeqsUpTo(DbRows, MaxRows)
  /\ payload = << >>
  /\ mapperStage = "rows"

\* getArtistRelationshipsFromDB from the result of its query to its return
getArtistRelationshipsFromDB ==
  /\ mapperStage = "rows"
  /\ payload' = RowsToRelationships(rows)
  /\ mapperStage' = "returned"
  /\ UNCHANGED rows
  /\ UNCHANGED << routerVars, builderVars, hookVars, autocompleteVars >>

\* ------------------------------------------------------------------------
\* Autocomplete: useAutocomplete (hooks/useAutocomplete)
\* ------------------------------------------------------------------------
\* options.minChars
minChars == 2

\* what the user can have typed: one query that is too short, two that
\* are searched for
Queries == {"a", "ab", "abc"}

\* `!query || query.length < minChars`
TooShort(q) == q = "" \/ Len(q) < minChars

\* data.artists of the response to a query
ArtistsFor(q) == << q >>

\* (variant: abort() has no effect on a request that is under way)
abortIgnored(fs, controller) == << >>

\* abortControllerRef.current.abort(): the callbacks whose await rejects
\* with an AbortError, which is every one that waits on a request made
\* with the signal of the controller
abort(fs, controller) == SelectSeq(fs, LAMBDA f : f.controller = controller)

\* the callbacks that are still waiting after an abort
StillWaiting(fs, rejected) == SelectSeq(fs, LAMBDA f : \A i \in 1..Len(rejected) : rejected[i] # f)

\* isLoading after the finally blocks of the callbacks whose await was
\* rejected with an AbortError (the catch block returns for them)
isLoadingAfterAbort(rejected, latest, loading) ==
  IF \E i \in 1..Len(rejected) : rejected[i].query = latest THEN FALSE ELSE loading

\* the user changes the query: React renders, runs the cleanup of the last
\* effect and then the effect; the awaits of the aborted request reject
\* and their callbacks run to the end before anything else happens
setQuery(q) ==
  /\ edits < MaxEdits
  /\ q # query
  /\ edits' = edits + 1
  /\ query' = q
  /\ latestQueryRef' = q
  /\ LET rejected == abort(fetches, abortControllerRef)
     IN /\ fetches' = StillWaiting(fetches, rejected)
        /\ discarded' = discarded \cup {[gen |-> rejected[i].gen, query |-> rejected[i].query] :
                                          i \in 1..Len(rejected)}
        /\ IF TooShort(q)
           THEN /\ suggestions' = << >>
                /\ isLoading' = isLoadingAfterAbort(rejected, q, FALSE)
                /\ error' = NoError
                /\ timeoutId' = NoTimer
           ELSE /\ timeoutId' = [query |-> q, gen |-> edits + 1]
                /\ isLoading' = isLoadingAfterAbort(rejected, q, isLoading)
                /\ UNCHANGED << suggestions, error >>
  /\ UNCHANGED abortControllerRef
  /\ UNCHANGED << routerVars, builderVars, hookVars, mapperVars >>

\* the debounce timer fires: the callback runs up to `await fetch(...)`
TimerFires ==
  /\ timeoutId # NoTimer
  /\ timeoutId' = NoTimer
  /\ IF timeoutId.query # latestQueryRef
     THEN UNCHANGED << isLoading, error, abortControllerRef, fetches >>
     ELSE /\ isLoading' = TRUE
          /\ error' = NoError
          /\ abortControllerRef' = timeoutId.gen
          /\ fetches' = Append(fetches, [query |-> timeoutId.query, gen |-> timeoutId.gen,
                                          controller |-> timeoutId.gen, at |-> "fetch"])
  /\ UNCHANGED << query, latestQueryRef, suggestions, edits, discarded >>
  /\ UNCHANGED << routerVars, builderVars, hookVars, mapperVars >>

\* what `await fetch(...)` can give: a response that is ok, one that is
\* not, a network error
FetchOutcomes == {"ok", "notOk", "failed"}

\* what `await response.json()` can give: a body with artists, a body
\* without, a body that does not parse
JsonOutcomes == {"artists", "noArtists", "failed"}

\* the catch and finally blocks for an error that is not an AbortError
CatchAndFinally(f, message) ==
  IF f.query = latestQueryRef
  THEN /\ error' = message
       /\ suggestions' = << >>
       /\ isLoading' = FALSE
       /\ UNCHANGED discarded
  ELSE /\ discarded' = discarded \cup {[gen |-> f.gen, query |-> f.query]}
       /\ UNCHANGED << error, suggestions, isLoading >>

\* the finally block after a `return` from the try block
ReturnAndFinally(f) ==
  /\ isLoading' = IF f.query = latestQueryRef THEN FALSE ELSE isLoading
  /\ discarded' = discarded \cup {[gen |-> f.gen, query |-> f.query]}
  /\ UNCHANGED << error, suggestions >>

\* `await fetch(...)` of callback t settles
FetchSettles(t, outcome) ==
  /\ t \in 1..Len(fetches)
  /\ fetches[t].at = "fetch"
  /\ LET f == fetches[t]
     IN IF outcome = "failed"
        THEN CatchAndFinally(f, "Failed to fetch") /\ fetches' = Without(fetches, t)
        ELSE IF f.query # latestQueryRef
        THEN ReturnAndFinally(f) /\ fetches' = Without(fetches, t)
        ELSE IF outcome = "notOk"
        THEN CatchAndFinally(f, "HTTP 500") /\ fetches' = Without(fetches, t)
        ELSE /\ fetches' = [fetches EXCEPT ![t].at = "json"]
             /\ UNCHANGED << error, suggestions, isLoading, discarded >>
  /\ UNCHANGED << query, latestQueryRef, abortControllerRef, timeoutId, edits >>
  /\ UNCHANGED << routerVars, builderVars, hookVars, mapperVars >>

\* `await response.json()` of callback t settles
JsonSettles(t, outcome) ==
  /\ t \in 1..Len(fetches)
  /\ fetches[t].at = "json"
  /\ fetches' = Without(fetches, t)
  /\ LET f == fetches[t]
     IN IF outcome = "failed"
        THEN CatchAndFinally(f, "Unexpected token")
        ELSE IF f.query # latestQueryRef
        THEN ReturnAndFinally(f)
        ELSE /\ suggestions' = IF outcome = "artists" THEN ArtistsFor(f.query) ELSE << >>
             /\ error' = NoError
             /\ isLoading' = FALSE
             /\ UNCHANGED discarded
  /\ UNCHANGED << query, latestQueryRef, abortControllerRef, timeoutId, edits >>
  /\ UNCHANGED << routerVars, builderVars, hookVars, mapperVars >>

\* ------------------------------------------------------------------------
\* Specification
\* ------------------------------------------------------------------------
\* the Source Router with the throttle behind its API adapter
Next ==
  \/ Tick(BigStep, MaxElapsed)
  \/ \E c \in Calls, k \in RouterOps : StartCall(c, k)
  \/ \E c \in Calls : GetHealthStatus(c)
  \/ \E c \in Calls : ForceHealthRecheck(c)
  \/ \E c \in Calls, r \in BOOLEAN : ProbeDone(c, r)
  \/ \E c \in Calls, sqlOk \in BOOLEAN, found \in BOOLEAN : DbQueryDone(c, sqlOk, found)
  \/ Dispatch
  \/ \E out \in ApiOutcomes : Settle(out)

Spec == Init /\ [][Next]_vars

\* the throttle under concurrent direct submissions
ThrottleNext ==
  \/ Tick(SmallStep, MaxThrottleElapsed)
  \/ \E c \in Calls : Submit(c)
  \/ Dispatch
  \/ \E out \in AdapterOutcomes : Settle(out)

ThrottleSpec == Init /\ [][ThrottleNext]_vars

\* The timer the throttle waits on fires, the operation it started settles
\* and the throttle goes on to the next queued operation.
ThrottleLiveSpec ==
  /\ ThrottleSpec
  /\ WF_vars(Tick(SmallStep, MaxThrottleElapsed))
  /\ WF_vars(Dispatch)
  /\ WF_vars(\E out \in AdapterOutcomes : Settle(out))

\* the Graph Builder on one fetched payload
BuilderNext == loadGraph

BuilderSpec == BuilderInit /\ [][BuilderNext]_vars

\* the Graph Builder on a payload with relationships whose target artist is
\* not embedded
SparseBuilderSpec == SparseInit /\ [][BuilderNext]_vars

\* ArtistGraph.merge applied twice to one payload
TenureNext == formatTenureCall

TenureSpec == TenureInit /\ [][TenureNext]_vars

MergeNext ==
  \/ MergeOnce
  \/ MergeAgain

MergeSpec == MergeInit /\ [][MergeNext]_vars

\* the expansion hook of one page, its renders and its fetches
ExpansionNext ==
  \/ Render
  \/ \E n \in Artists : handleNodeExpand(n)
  \/ \E d \in 1..MaxDepth : handleDepthChange(d)
  \/ handleResetGraph
  \/ \E t \in 1..(MaxRequests + 1), ok \in BOOLEAN : FetchDone(t, ok)

ExpansionSpec == Init /\ [][ExpansionNext]_vars

\* the multi-level expansions of one page: the UI only changes the depth
MultiLevelNext ==
  \/ Render
  \/ \E d \in 1..MaxDepth : handleDepthChange(d)
  \/ \E t \in 1..(MaxRequests + 1), ok \in BOOLEAN : FetchDone(t, ok)

\* the expansions of one page that is never reset, up to two levels deep
IdleNext ==
  \/ Render
  \/ \E n \in Artists : handleNodeExpand(n)
  \/ \E d \in 1..(MaxDepth - 1) : handleDepthChange(d)
  \/ \E t \in 1..(MaxRequests + 1), ok \in BOOLEAN : FetchDone(t, ok)

\* the relationship query of the replica on one result set
MapperNext == getArtistRelationshipsFromDB

MapperSpec == MapperInit /\ [][MapperNext]_vars

\* the autocomplete box while the user types
AutocompleteNext ==
  \/ \E q \in Queries : setQuery(q)
  \/ TimerFires
  \/ \E t \in 1..MaxEdits, outcome \in FetchOutcomes : FetchSettles(t, outcome)
  \/ \E t \in 1..MaxEdits, outcome \in JsonOutcomes : JsonSettles(t, outcome)

AutocompleteSpec == Init /\ [][AutocompleteNext]_vars

\* every fetch settles and React renders after every change of state
IdleLiveSpec ==
  /\ Init
  /\ [][IdleNext]_vars
  /\ WF_vars(\E t \in 1..(MaxRequests + 1), ok \in BOOLEAN : FetchDone(t, ok))
  /\ WF_vars(Render)

\* every fetch settles: getArtistRelationships resolves or rejects
MultiLevelLiveSpec ==
  /\ Init
  /\ [][MultiLevelNext]_vars
  /\ WF_vars(\E t \in 1..(MaxRequests + 1), ok \in BOOLEAN : FetchDone(t, ok))

\* ------------------------------------------------------------------------
\* Properties
\* ------------------------------------------------------------------------
\* position of operation c in sequence q, 0 if absent
PosIn(q, c) == IF c \in Range(q) THEN CHOOSE i \in 1..Len(q) : q[i] = c ELSE 0

\* the step dispatches an operation
DispatchStep == Len(dispatched') = Len(dispatched) + 1

\* C1: any two successive dispatches of outbound calls to the public API
\* are at least RATE_LIMIT_MS apart, whoever submitted them and however many
\* callers are waiting.
C1_MinSpacing ==
  [][(DispatchStep /\ lastDispatchAt # NoTime)
       => now' - lastDispatchAt >= RATE_LIMIT_MS]_vars

\* three operations were dispatched, the later two each exactly one interval
\* after the one before
C1_Witness ==
  /\ Len(dispatched) = 3
  /\ lastDispatchAt = StartTime + 2 * SmallStep + 2 * SmallStep
  /\ Len(submitted) = 3

\* C2: operations are dispatched strictly in submission order: the sequence
\* of dispatched operations is always a prefix of the sequence of submitted
\* operations.
C2_Fifo ==
  /\ Len(dispatched) <= Len(submitted)
  /\ \A i \in 1..Len(dispatched) : dispatched[i] = submitted[i]

\* three operations were submitted and all three were dispatched and resolved
C2_Witness ==
  /\ Len(dispatched) = 3
  /\ dispatched = submitted
  /\ \A c \in 1..3 : pc[c] = "done"

\* C3: every operation submitted to the throttle eventually resolves to its
\* caller, with its result or with its failure.
C3_AllResolve ==
  \A c \in Calls : (pc[c] = "apiWait") ~> (pc[c] = "done" /\ result[c].status \in {"ok", "failed"})

\* all submitted operations have resolved, one of them with a failure
C3_Witness ==
  /\ \A c \in 1..NClients : pc[c] = "done"
  /\ \E c \in 1..NClients : result[c].status = "failed"
  /\ \E c \in 1..NClients : result[c].status = "ok"

\* a caller holds the outcome of its own operation and of no other
OwnOutcome(c) ==
  pc[c] = "done" =>
    /\ c \in Range(dispatched)
    /\ result[c].status = "failed" <=> hist[c].api \in AdapterOutcomes \ {"record"}
    /\ result[c].status = "ok" <=> hist[c].api = "record"

\* C4: the failure of a throttled operation is delivered to its own caller
\* only, and every operation still waiting when an operation has failed is
\* dispatched afterwards and resolves with its own outcome.
C4_FailureIsolated ==
  /\ [](\A c \in Calls : OwnOutcome(c))
  /\ \A x \in Calls :
        (pc[x] = "apiWait" /\ \E c \in Calls : result[c].status = "failed")
          ~> (pc[x] = "done" /\ x \in Range(dispatched) /\ hist[x].api # "none")

\* an operation failed and an operation dispatched after it succeeded
C4_Witness ==
  \E c, x \in Calls :
    /\ result[c].status = "failed"
    /\ result[x].status = "ok"
    /\ PosIn(dispatched, c) > 0
    /\ PosIn(dispatched, c) < PosIn(dispatched, x)

\* the step in which call c is made
Started(c) == pc[c] = "idle" /\ pc'[c] # "idle"

\* C5: when the replica query of a logical operation throws, the same call
\* goes on to the API adapter; if the adapter succeeds the call returns a
\* successful result with source "api"; the caller sees a failure only when
\* the API path failed and the replica path gave no result either.
C5_Fallback ==
  \A c \in Calls : kind[c] \in RouterOps =>
    /\ hist[c].dbThrew => pc[c] \in {"apiWait", "done"} /\ c \in Range(submitted)
    /\ (pc[c] = "done" /\ hist[c].dbThrew /\ hist[c].api = "record")
         => result[c].status = "ok" /\ result[c].source = "api"
    /\ (pc[c] = "done" /\ result[c].status = "failed")
         => hist[c].api = "error" /\ (hist[c].queried = 0 \/ hist[c].dbThrew)

\* a call whose replica query threw returned the API adapter's data
C5_Witness ==
  \E c \in Calls :
    /\ kind[c] \in RouterOps
    /\ hist[c].dbThrew
    /\ pc[c] = "done"
    /\ result[c] = ApiResult("record")

\* C6 (as claimed): every logical call that starts within
\* DB_CHECK_INTERVAL_MS after a replica query failure, with no forced recheck
\* in between, is served without probing or querying the replica.
C6_NoReplicaAfterFailure ==
  \A c \in Calls :
    (kind[c] \in RouterOps /\ hist[c].inFailWindow)
      => ~hist[c].probed /\ hist[c].queried = 0

\* C7 (as claimed): when the replica has no record of the requested entity,
\* getArtist, getArtistRelationships and getArtistLifeSpan return the empty
\* result from the replica: no exception, no fallback, no demotion.
C7_NotFoundIsData ==
  \A c \in Calls :
    (kind[c] \in {"getArtist", "getArtistRelationships", "getArtistLifeSpan"}
       /\ hist[c].notFound)
      => /\ ~hist[c].dbThrew
         /\ pc[c] = "done"
         /\ result[c] = LocalResult("empty")
         /\ c \notin Range(submitted)

\* the cached verdict is known and the probe behind it started less than
\* DB_CHECK_INTERVAL_MS ago
KnownAndFresh ==
  /\ dbAvailable # "null"
  /\ verdictProbedAt # NoTime
  /\ now - verdictProbedAt < DB_CHECK_INTERVAL_MS

\* C8: a logical operation or getHealthStatus that starts while the cached
\* verdict is known and younger than DB_CHECK_INTERVAL_MS reuses it and
\* issues no probe.
C8_CacheReused ==
  [][\A c \in Calls :
       (Started(c) /\ kind'[c] \in RouterOps \cup {"getHealthStatus"} /\ KnownAndFresh)
         => /\ pc'[c] # "probing"
            /\ ~hist'[c].probed
            /\ hist'[c].usedCache
            /\ kind'[c] = "getHealthStatus" => result'[c] = HealthResult(dbAvailable)]_vars

\* a call was answered from the cache that an earlier call's probe had
\* filled BigStep milliseconds before
C8_Witness ==
  \E c, x \in Calls :
    /\ c < x
    /\ hist[c].probeResult # "none"
    /\ kind[x] \in RouterOps \cup {"getHealthStatus"}
    /\ hist[x].usedCache
    /\ verdictProbedAt = StartTime
    /\ now = StartTime + BigStep

\* C9: the forced recheck resets the cache to unknown and starts a probe at
\* once, whatever the age of the verdict; it reports the verdict of that
\* probe; it never submits anything to the throttle.
C9_ForceRecheck ==
  [][\A c \in Calls :
       /\ (Started(c) /\ kind'[c] = "forceHealthRecheck")
            => /\ pc'[c] = "probing"
               /\ probeNow'[c] = now
               /\ dbAvailable' = "null"
       /\ (kind[c] = "forceHealthRecheck" /\ pc[c] = "probing" /\ pc'[c] = "done")
            => /\ result'[c].status = "ok"
               /\ result'[c].available = dbAvailable'
               /\ result'[c].available \in {"true", "false"}
       /\ kind'[c] = "forceHealthRecheck"
            => /\ c \notin Range(submitted')
               /\ c \notin Range(requestQueue')
               /\ inFlight' # c]_vars

\* a forced recheck ran right after a probe had filled the cache, and
\* reported the replica as available
C9_Witness ==
  \E c, f \in Calls :
    /\ c < f
    /\ pc[c] = "done" /\ hist[c].probed /\ hist[c].probeResult # "none"
    /\ kind[f] = "forceHealthRecheck" /\ pc[f] = "done"
    /\ result[f].available = "true"
    /\ now = StartTime

\* C10: the source of a result names the path that produced the data:
\* "local" exactly when the replica query returned it, "api" exactly when
\* the API adapter returned it; a call that fell back never reports "local".
C10_SourceTruthful ==
  \A c \in Calls :
    (kind[c] \in RouterOps /\ pc[c] = "done" /\ result[c].status = "ok")
      => /\ result[c].source \in {"local", "api"}
         /\ result[c].source = "local" <=> (hist[c].queried = 1 /\ ~hist[c].dbThrew)
         /\ result[c].source = "api" <=> hist[c].api = "record"
         /\ hist[c].dbThrew => result[c].source = "api"

\* one call was served by the replica, another fell back and was served by
\* the API adapter
C10_Witness ==
  \E c, x \in Calls :
    /\ kind[c] \in RouterOps /\ pc[c] = "done" /\ result[c].source = "local"
    /\ kind[x] \in RouterOps /\ pc[x] = "done" /\ hist[x].dbThrew
    /\ result[x].source = "api"

Running == {c \in Range(dispatched) : pc[c] = "apiWait" /\ c \notin Range(requestQueue)}

\* C12: the throttle runs one operation at a time: an operation is started
\* only when every operation started before it has settled.
C12_Serialized ==
  [][DispatchStep => (Running = {} /\ Cardinality(Running') = 1)]_vars

\* the second operation runs, the first has settled, the third waits
C12_Witness ==
  /\ Len(dispatched) = 2
  /\ inFlight = dispatched[2]
  /\ pc[dispatched[1]] = "done"
  /\ Len(requestQueue) = 1

\* C13: submissions are never merged: every submitted operation is waiting
\* in the queue or was started, exactly once, so that N submissions make N
\* outbound calls, also when two of them ask for the same entity.
C13_NoDeduplication ==
  /\ \A c \in Range(submitted) :
        Count(requestQueue, c) + Count(dispatched, c) = Count(submitted, c)
  /\ Len(requestQueue) + Len(dispatched) = Len(submitted)
  /\ (requestQueue = << >>) => Len(dispatched) = nextCall - 1

\* three operations, two of them for the same entity, were submitted within
\* two intervals and three outbound calls were made
C13_Witness ==
  /\ Len(submitted) = 3
  /\ Len(dispatched) = 3
  /\ now = StartTime + 2 * RATE_LIMIT_MS
  /\ \E i, j \in 1..3 : i < j /\ Entity(dispatched[i]) = Entity(dispatched[j])

\* C14: a request whose response is not OK rejects to its caller and never
\* resolves with data: with 'MusicBrainz rate limit exceeded' for status
\* 503, with 'MusicBrainz API error: <status>' for 500 and 404.
C14_NotOkRejects ==
  \A c \in Calls :
    (pc[c] = "done" /\ hist[c].api \in HttpErrors)
      => /\ result[c].status = "failed"
         /\ result[c].source = "none"
         /\ hist[c].api = "503" => result[c].data = "MusicBrainz rate limit exceeded"
         /\ hist[c].api = "500" => result[c].data = "MusicBrainz API error: 500"
         /\ hist[c].api = "404" => result[c].data = "MusicBrainz API error: 404"

\* three requests were answered with 503, 500 and 404 and each was rejected
C14_Witness ==
  \E a, b, c \in Calls :
    /\ hist[a].api = "503" /\ result[a].data = "MusicBrainz rate limit exceeded"
    /\ hist[b].api = "500" /\ result[b].data = "MusicBrainz API error: 500"
    /\ hist[c].api = "404" /\ result[c].data = "MusicBrainz API error: 404"

\* the merge arguments carry the expanded node as a node to add
ExpandedInPayload == \E i \in 1..Len(newNodes) : newNodes[i].id = expandedNodeId

NoDuplicateIds(g) == DistinctNodeIds(g.nodes) /\ DistinctEdgeIds(g.edges)

EdgesBetween(g, rel) ==
  {a \in 1..Len(g.edges) : /\ g.edges[a].sourceId = rel.sourceArtistId
                           /\ g.edges[a].targetId = rel.targetArtistId
                           /\ g.edges[a].type = rel.type}

\* C17 (as claimed): two relationships between the same two artists with
\* the same type and different begin dates give two edges with distinct ids
\* in the built graph.
C17_EdgePerRelationship ==
  stage = "built" =>
    \A i, j \in 1..Len(relationships) :
      (/\ i < j
       /\ relationships[i].sourceArtistId = relationships[j].sourceArtistId
       /\ relationships[i].targetArtistId = relationships[j].targetArtistId
       /\ relationships[i].type = relationships[j].type
       /\ relationships[i].begin # relationships[j].begin)
        => /\ Cardinality(EdgesBetween(graph, relationships[i])) >= 2
           /\ \A a, b \in EdgesBetween(graph, relationships[i]) :
                 a # b => EdgeId(graph.edges[a]) # EdgeId(graph.edges[b])

\* the artists related to the root
Related == {relationships[i].targetArtistId : i \in 1..Len(relationships)}

\* the node of artist id in the graph
NodeOf(g, id) == g.nodes[CHOOSE i \in 1..Len(g.nodes) : g.nodes[i].id = id]

\* the relationships (by position) that link artist m to the root
Links(m) == {i \in 1..Len(relationships) : relationships[i].targetArtistId = m}

MemberOf(i) == relationships[i].type = "member_of"

BeginKnown(i) == relationships[i].begin # NoDate

BeginYear(i) == relationships[i].begin[1]

FounderLike(i) ==
  \E k \in 1..Len(relationships[i].attributes) :
    relationships[i].attributes[k] \in {"founder", "founding"}

\* the begin years of the member_of relationships
JoinYears == {BeginYear(i) : i \in {x \in 1..Len(relationships) : MemberOf(x) /\ BeginKnown(x)}}

\* the begin year of the root's own life span, if known
RootYears == IF artist.lifeSpanBegin = NoDate THEN {} ELSE {artist.lifeSpanBegin[1]}

\* y is the minimum of the set S of years
IsMinimum(y, S) == y \in S /\ \A z \in S : y <= z

\* C18 (as claimed): a related artist is flagged founding exactly when some
\* relationship linking it to the root carries a founder-like attribute or
\* begins in earliestMemberYear, the minimum of the root's begin year and
\* the begin years of the member_of relationships.
C18_FoundingIff ==
  stage = "built" =>
    \A m \in Related :
      NodeOf(graph, m).isFoundingMember
        <=> \E i \in Links(m) :
              \/ FounderLike(i)
              \/ BeginKnown(i) /\ IsMinimum(BeginYear(i), JoinYears \cup RootYears)

\* C18 (amended): a related artist is flagged founding exactly when some
\* member_of relationship linking it to the root carries a founder-like
\* attribute or begins in earliestMemberYear; relationships of other types
\* never make an artist founding.
C18_FoundingIffMemberOf ==
  stage = "built" =>
    \A m \in Related :
      NodeOf(graph, m).isFoundingMember
        <=> \E i \in Links(m) :
              /\ MemberOf(i)
              /\ \/ FounderLike(i)
                 \/ BeginKnown(i) /\ IsMinimum(BeginYear(i), JoinYears \cup RootYears)

\* one artist is founding through a membership that began in the earliest
\* year, another collaborated from that same year on and is not founding
C18_Witness ==
  /\ stage = "built"
  /\ \E m, n \in Related :
        /\ NodeOf(graph, m).isFoundingMember
        /\ \A i \in Links(m) : MemberOf(i) /\ ~FounderLike(i)
        /\ ~NodeOf(graph, n).isFoundingMember
        /\ \E i \in Links(n) : /\ ~MemberOf(i) /\ BeginKnown(i)
                                /\ IsMinimum(BeginYear(i), JoinYears \cup RootYears)

\* all relationships are memberships without a founder-like attribute
PlainMemberships == \A i \in 1..Len(relationships) : MemberOf(i) /\ ~FounderLike(i)

\* the members flagged founding are those who joined in the earliest join year
EarliestJoinersFounding ==
  \A m \in Related :
    NodeOf(graph, m).isFoundingMember
      <=> \E i \in Links(m) : BeginKnown(i) /\ IsMinimum(BeginYear(i), JoinYears)

FounderAttributeFounding ==
  \A i \in 1..Len(relationships) :
    (MemberOf(i) /\ FounderLike(i))
      => NodeOf(graph, relationships[i].targetArtistId).isFoundingMember

GroupNotOlderThanMembers ==
  \A y \in RootYears : \A z \in JoinYears : z <= y

C20_UnknownYearNotFounding ==
  stage = "built" =>
    \A m \in Related :
      (\A i \in Links(m) : ~BeginKnown(i)) => ~NodeOf(graph, m).isFoundingMember

\* C20 (amended): a member whose begin year is unknown and whose
\* memberships carry no founder-like attribute is never flagged founding.
C20_UnknownYearNoFounderNotFounding ==
  stage = "built" =>
    \A m \in Related :
      (\A i \in Links(m) : ~BeginKnown(i) /\ ~(MemberOf(i) /\ FounderLike(i)))
        => ~NodeOf(graph, m).isFoundingMember

\* a member with an unknown begin year is not founding, next to a member
\* who is founding by its begin year; no begin year of the group is known
C20_Witness ==
  /\ stage = "built"
  /\ artist.lifeSpanBegin = NoDate
  /\ \E m, n \in Related :
        /\ \A i \in Links(m) : MemberOf(i) /\ ~BeginKnown(i)
        /\ ~NodeOf(graph, m).isFoundingMember
        /\ \A i \in Links(n) : MemberOf(i) /\ BeginKnown(i) /\ ~FounderLike(i)
        /\ NodeOf(graph, n).isFoundingMember

\* C15 (as claimed): at most one expansion is in flight at a time, and an
\* expansion or depth-change request that arrives while an expansion is in
\* flight starts no fetch and changes no state of the hook.
C15_SingleExpansion ==
  /\ [](Len(tasks) <= 1)
  /\ [][(/\ requests' # requests
          /\ lastRequest' \in {"expand", "depth"}
          /\ tasks # << >>)
         => UNCHANGED << isExpanding, autoExpandComplete, expansionDepth,
                         expandedGraph, expandProgress, tasks >>]_vars

\* the graph the hook hands to the page: expandedGraph || initialGraphData
graphData == OrInitial(expandedGraph)

\* a step of handleResetGraph
ResetStep == requests' # requests /\ lastRequest' = "reset"

\* a step of handleDepthChange
DepthChangeStep == requests' # requests /\ lastRequest' = "depth"

\* C21 (as claimed): a node whose loaded flag is true in the graph keeps it
\* true across expansions and depth changes; only an explicit reset of the
\* graph is left out.
C21_LoadedNeverReverts ==
  [][ResetStep \/ graphData.loaded \subseteq graphData'.loaded]_vars

\* C22 (as claimed, with a depth change counted as a reset of the graph):
\* every step that is neither a reset nor a depth change keeps all the nodes
\* of the graph.
C22_GraphOnlyGrows ==
  [][ResetStep \/ DepthChangeStep
     \/ Range(graphData.nodes) \subseteq Range(graphData'.nodes)]_vars

\* the multi-level expansions that wait on a fetch
MultiTasks == {tasks[t] : t \in {k \in 1..Len(tasks) : tasks[k].kind = "multi"}}

NoRepeats(q) == \A i, j \in 1..Len(q) : q[i] = q[j] => i = j

\* C23: a multi-level expansion to depth D works on levels 1..D-1 only,
\* every level it works on has nodes to expand, it asks for no node twice
\* (although the catalog has cycles), when it ends before level D-1 the
\* next level has no expandable node, and it always comes to its end.
C23_Terminates ==
  /\ [](\A x \in MultiTasks \cup Range(finished) :
          /\ x.level \in 1..(x.depth - 1)
          /\ x.todo # << >>
          /\ NoRepeats(x.fetched))
  /\ [](\A x \in Range(finished) :
          x.level + 1 < x.depth
            => NodesToExpand(x.graph, x.depths, x.level + 1) = << >>)
  /\ [](MultiTasks # {} => <>(MultiTasks = {}))

\* an expansion to depth 4 went twice round the cycles of the catalog,
\* fetched all four related artists and stopped after level 2, level 3
\* being empty
C23_Witness ==
  /\ finished # << >>
  /\ finished[1].depth = 4
  /\ finished[1].level = 2
  /\ Len(finished[1].fetched) = 4
  /\ finished[1].failed = {}

\* C24: a node whose fetch failed during a multi-level expansion is not
\* marked loaded in the expansion's graph and is asked for exactly once;
\* the step in which the fetch fails goes on to the next node, to the next
\* level, or ends the expansion in the normal way.
C24_FailureIsolated ==
  /\ [](\A x \in MultiTasks \cup Range(finished) :
          \A n \in x.failed :
            /\ n \notin x.graph.loaded
            /\ Cardinality({i \in 1..Len(x.fetched) : x.fetched[i] = n}) = 1)
  /\ [][\A t \in 1..Len(tasks) :
          (/\ tasks[t].kind = "multi"
           /\ tasks' # tasks
           /\ \/ Len(tasks') < Len(tasks) /\ tasks' = Without(tasks, t)
                 /\ finished' # << >> /\ tasks[t].node \in finished'[1].failed
                 /\ finished'[1].fetched = tasks[t].fetched
              \/ Len(tasks') = Len(tasks) /\ tasks'[t] # tasks[t]
                 /\ tasks[t].node \in tasks'[t].failed)
          => \/ /\ Len(tasks') = Len(tasks)
                /\ tasks'[t].graph = tasks[t].graph
                /\ Len(tasks'[t].fetched) = Len(tasks[t].fetched) + 1
                /\ isExpanding' = isExpanding
             \/ /\ Len(tasks') < Len(tasks)
                /\ ~isExpanding'
                /\ expandedGraph' = tasks[t].graph
                /\ expandProgress' = NullProgress]_vars

\* the first fetch of an expansion failed, the nodes after it and the next
\* level were still expanded, and the expansion has ended
C24_Witness ==
  /\ finished # << >>
  /\ finished[1].failed = {finished[1].fetched[1]}
  /\ Len(finished[1].fetched) >= 3
  /\ finished[1].level = 2
  /\ ~isExpanding
  /\ expandedGraph = finished[1].graph

\* C30: while a multi-level expansion runs, the depth recorded for a node is
\* never changed once it is there.
C30_FirstDepthWins ==
  /\ [][\A t \in 1..Len(tasks) :
          (tasks[t].kind = "multi" /\ Len(tasks') = Len(tasks) /\ tasks'[t].kind = "multi"
           /\ tasks'[t].fetched # tasks[t].fetched)
          => \A n \in Artists :
               tasks[t].depths[n] # NoDepth => tasks'[t].depths[n] = tasks[t].depths[n]]_vars
  /\ [](\A x \in MultiTasks \cup Range(finished) :
          /\ x.depths[HookRoot] = 0
          /\ \A n \in Range(Catalog[HookRoot]) \ {HookRoot} : x.depths[n] = 1)

\* b was seen at depth 1 from the root and again at depth 2 from a, whose
\* fetch has resolved; c, first seen from a, is at depth 2
C30_Witness ==
  \E x \in MultiTasks :
    /\ "a" \in x.graph.loaded
    /\ "b" \in Range(Catalog["a"])
    /\ x.depths["b"] = 1
    /\ x.depths["c"] = 2

\* the date string starts with a four-digit year
YearKnown(d) == d # NoDate /\ d[1] # NoYear

\* C25: the tenure is "" when the begin year is unknown, "begin-present"
\* when the begin year is known and the end year is not, the one year when
\* both years are the same, and "begin-end" otherwise.
C25_TenureFormat ==
  stage = "formatted" =>
    LET b == relationships[1].begin
        e == relationships[1].end
    IN tenureText = (CASE ~YearKnown(b) -> ""
                   [] YearKnown(b) /\ ~YearKnown(e) -> ToString(b[1]) \o "-present"
                   [] YearKnown(b) /\ YearKnown(e) /\ b[1] = e[1] -> ToString(b[1])
                   [] OTHER -> ToString(b[1]) \o "-" \o ToString(e[1]))

\* a tenure within one year, given with month and day, came out as the year
C25_Witness ==
  /\ stage = "formatted"
  /\ relationships[1].begin = << 1961, 3 >>
  /\ relationships[1].end = << 1961, 3, 15 >>
  /\ tenureText = "1961"

\* the tags the claim calls administrative
AdministrativeTags == {"founding", "founder", "original", "current", "past", "minor"}

\* q keeps elements of all in the order they have there
KeepsOrderOf(q, all) ==
  \E f \in [1..Len(q) -> 1..Len(all)] :
    /\ \A k \in 1..Len(q) : all[f[k]] = q[k]
    /\ \A k \in 1..(Len(q) - 1) : f[k] < f[k + 1]

\* all attributes of the relationships that link the root to m, in order
RECURSIVE AttributesOf(_, _)
AttributesOf(rels, m) ==
  IF rels = << >> THEN << >>
  ELSE (IF Head(rels).targetArtistId = m \/ Head(rels).sourceArtistId = m
        THEN Head(rels).attributes ELSE << >>) \o AttributesOf(Tail(rels), m)

\* C26 (as claimed): the instruments of every node are at most 3, none of
\* them is an administrative tag, and they stand in the order of the
\* relationship attributes.
C26_Instruments ==
  stage = "built" =>
    \A i \in 1..Len(graph.nodes) :
      LET ins == graph.nodes[i].instruments IN
        /\ Len(ins) <= 3
        /\ \A k \in 1..Len(ins) : ins[k] \notin AdministrativeTags
        /\ KeepsOrderOf(ins, AttributesOf(relationships, graph.nodes[i].id))

\* the probe of call c is in flight and a replica query failed after it was
\* started (no forced recheck since)
Overtaken(c) ==
  /\ pc[c] = "probing"
  /\ lastFailTime # NoTime
  /\ lastFailTime > probeNow[c]

\* C27 (as claimed): when a probe that was started before the replica query
\* failure that demoted the health returns, the health does not go from
\* unavailable back to available.
C27_NoStalePromotion ==
  [][\A c \in Calls :
       (Overtaken(c) /\ pc'[c] # "probing" /\ dbAvailable = "false")
         => dbAvailable' # "true"]_vars

\* C28: a logical call queries the replica at most once; in the step in
\* which its query throws the health is set to unavailable and only then,
\* in the same step, is the call handed to the API adapter: it was not
\* handed over before, and it is never handed over more than once.
C28_DemoteThenFallback ==
  /\ [](\A c \in Calls : kind[c] \in RouterOps =>
          /\ hist[c].queried <= 1
          /\ Count(submitted, c) <= 1
          /\ pc[c] = "dbQuery" => c \notin Range(submitted))
  /\ [][\A c \in Calls :
          (kind[c] \in RouterOps /\ pc[c] = "dbQuery" /\ hist'[c].dbThrew)
            => /\ dbAvailable' = "false"
               /\ c \in Range(submitted')
               /\ pc'[c] = "apiWait"
               /\ hist'[c].queried = 1]_vars

\* the replica query of a call has thrown: the health is unavailable and
\* the call waits for the API adapter
C28_Witness ==
  \E c \in Calls :
    /\ kind[c] \in RouterOps
    /\ hist[c].dbThrew
    /\ pc[c] = "apiWait"
    /\ dbAvailable = "false"
    /\ c \in Range(requestQueue)

\* the health is unavailable and the probe behind the cache started at
\* least DB_CHECK_INTERVAL_MS ago
DemotedAndExpired ==
  /\ dbAvailable = "false"
  /\ verdictProbedAt # NoTime
  /\ now - verdictProbedAt >= DB_CHECK_INTERVAL_MS

\* a call that starts when the demotion has expired probes the replica
ReprobesAfterTtl ==
  [][\A c \in Calls :
       (Started(c) /\ kind'[c] \in RouterOps /\ DemotedAndExpired)
         => pc'[c] = "probing" /\ probeNow'[c] = now /\ hist'[c].probed]_vars

\* C29 (as claimed): a call that starts when the demotion has expired
\* probes the replica, and a call whose probe succeeded returns source
\* "local".
C29_DemotionExpires ==
  /\ ReprobesAfterTtl
  /\ [](\A c \in Calls :
          (kind[c] \in RouterOps /\ hist[c].probeResult = "true" /\ pc[c] = "done")
            => result[c].status = "ok" /\ result[c].source = "local")

\* C29 (amended): a call that starts when the demotion has expired probes
\* the replica; a call whose probe succeeded queries the replica in the
\* same call and returns source "local" when that query does not throw; when
\* it throws the call falls back and never reports "local".
C29_DemotionExpiresUnlessQueryThrows ==
  /\ ReprobesAfterTtl
  /\ [](\A c \in Calls :
          (kind[c] \in RouterOps /\ hist[c].probeResult = "true")
            => /\ hist[c].queried = 1
               /\ (pc[c] = "done" /\ ~hist[c].dbThrew)
                    => result[c].status = "ok" /\ result[c].source = "local"
               /\ (pc[c] = "done" /\ hist[c].dbThrew) => result[c].source # "local")

\* a call that started less than DB_CHECK_INTERVAL_MS after a replica query
\* failure, but DB_CHECK_INTERVAL_MS after the last probe, probed the
\* replica and was served by it
C29_Witness ==
  \E c, x \in Calls :
    /\ c < x
    /\ hist[c].dbThrew
    /\ kind[x] \in RouterOps
    /\ hist[x].inFailWindow
    /\ hist[x].probed /\ hist[x].probeResult = "true"
    /\ pc[x] = "done"
    /\ result[x].source = "local"
    /\ verdictProbedAt = StartTime + DB_CHECK_INTERVAL_MS

\* C31: in a multi-level expansion to depth D every node of the graph has a
\* recorded depth of 0..D, the nodes asked for were recorded at depths
\* 1..D-1 and were not loaded when they were asked for; the root and the
\* nodes at depth D are not asked for.
C31_DepthBounds ==
  /\ \A x \in MultiTasks \cup Range(finished) :
       /\ \A n \in Range(x.graph.nodes) : x.depths[n] \in 0..x.depth
       /\ \A i \in 1..Len(x.fetched) : x.depths[x.fetched[i]] \in 1..(x.depth - 1)
       /\ HookRoot \notin Range(x.fetched)
       /\ \A n \in Range(x.graph.nodes) : x.depths[n] = x.depth => n \notin Range(x.fetched)
  /\ \A x \in MultiTasks : x.node \notin x.graph.loaded

\* an expansion to depth 2 has ended: a and b (depth 1) were fetched, c and
\* d (depth 2) are in the graph and were not
C31_Witness ==
  /\ finished # << >>
  /\ finished[1].depth = 2
  /\ finished[1].fetched = << "a", "b" >>
  /\ finished[1].failed = {}
  /\ finished[1].depths["c"] = 2 /\ finished[1].depths["d"] = 2
  /\ {"c", "d"} \subseteq Range(finished[1].graph.nodes)

\* C37: the auto-expand step at depth 1 starts no fetch and sets the graph
\* to the one built from the root payload.
C37_DepthOneNoFetch ==
  [][(~autoExpandComplete /\ autoExpandComplete' /\ expansionDepth = 1)
       => /\ tasks' = tasks
          /\ expandedGraph' = buildGraphData(HookRoot)
          /\ isExpanding' = isExpanding]_vars

\* the expansion to depth 1 is done: no fetch was started and the graph is
\* the root with its related artists
C37_Witness ==
  /\ autoExpandComplete
  /\ expansionDepth = 1
  /\ requests = 0
  /\ tasks = << >>
  /\ finished = << >>
  /\ expandedGraph = [nodes |-> << "r", "a", "b" >>, loaded |-> {}]

\* C38 (as claimed): while a multi-level expansion works on a level, the
\* progress has the number of nodes of that level as total and the position
\* of the node being fetched as current, 0 <= current <= total; within a
\* level current does not decrease; when no multi-level expansion runs the
\* progress is cleared.
C38_Progress ==
  /\ [](\A x \in MultiTasks :
          /\ expandProgress.total = Len(x.todo)
          /\ expandProgress.current = x.i
          /\ expandProgress.current \in 0..expandProgress.total)
  /\ [](MultiTasks = {} => expandProgress = NullProgress)
  /\ [][\A t \in 1..Len(tasks) :
          (/\ tasks[t].kind = "multi"
           /\ Len(tasks') = Len(tasks)
           /\ tasks'[t].kind = "multi"
           /\ tasks'[t].level = tasks[t].level)
          => expandProgress'.current >= expandProgress.current]_vars

\* C32: whenever isExpanding is true it becomes false again and the
\* callbacks of a later render see it false, so that they accept requests;
\* the step that ends an expansion, whether its last fetch resolved or was
\* rejected, sets isExpanding to false.
C32_ReturnsToIdle ==
  /\ [](isExpanding => <>(~isExpanding /\ ~SeenExpanding(render)))
  /\ [](isExpanding => tasks # << >>)
  /\ [][Len(tasks') < Len(tasks) => ~isExpanding']_vars

\* a single-node expansion whose fetch was rejected and a multi-level
\* expansion have both ended, and the engine is idle
C32_Witness ==
  /\ ~isExpanding
  /\ ~SeenExpanding(render)
  /\ render.mounted
  /\ tasks = << >>
  /\ finished # << >>
  /\ lastRequest = "expand"
  /\ expandedGraph.loaded = {}

\* C33: the step in which a single-node expansion ends either leaves the
\* displayed graph as it was (the fetch failed) or marks the expanded node,
\* and no other node, as loaded; no flag is cleared, no node is removed and
\* the selected depth stays as it is.
C33_OnlyExpandedNodeMarked ==
  [][\A t \in 1..Len(tasks) :
       (tasks[t].kind = "node" /\ tasks' = Without(tasks, t))
       => /\ expansionDepth' = expansionDepth
          /\ \/ graphData' = graphData
             \/ /\ graphData.loaded \subseteq graphData'.loaded
                /\ graphData'.loaded \ graphData.loaded \subseteq {tasks[t].node}
                /\ Range(graphData.nodes) \subseteq Range(graphData'.nodes)]_vars

\* no expansion is in flight and React has rendered the current state
Settled == tasks = << >> /\ render = Snapshot

\* C39: when the last request was a reset and no expansion is in flight any
\* more, the displayed graph is a fresh expansion of the initial payload to
\* the selected depth: the graph of the root payload at depth 1, the result
\* of a multi-level expansion to that depth otherwise. Nothing merged by an
\* expansion that was running at the time of the reset is left in it.
C39_ResetDiscardsInFlight ==
  (lastRequest = "reset" /\ Settled)
  => IF DirectOnly(expansionDepth)
     THEN graphData = initialGraphData
     ELSE /\ finished # << >>
          /\ finished[1].depth = expansionDepth
          /\ expandedGraph = finished[1].graph

\* the graph the last merge was applied to
BeforeMerge == graphLog[Len(graphLog)]

\* C34: a merge leaves every node and every edge the graph had at its
\* position and as it was, except that the expanded node is marked loaded;
\* what the merge adds comes after them and has ids the graph did not have.
C34_MergeAppendsOnly ==
  stage \in {"merged", "mergedAgain"} =>
    /\ Len(graph.nodes) >= Len(BeforeMerge.nodes)
    /\ Len(graph.edges) >= Len(BeforeMerge.edges)
    /\ \A i \in 1..Len(BeforeMerge.nodes) :
         graph.nodes[i] = IF BeforeMerge.nodes[i].id = expandedNodeId
                          THEN [BeforeMerge.nodes[i] EXCEPT !.isLoaded = TRUE]
                          ELSE BeforeMerge.nodes[i]
    /\ \A i \in 1..Len(BeforeMerge.edges) : graph.edges[i] = BeforeMerge.edges[i]
    /\ \A i \in (Len(BeforeMerge.nodes) + 1)..Len(graph.nodes) :
         graph.nodes[i].id \notin nodeIds(BeforeMerge)
    /\ \A i \in (Len(BeforeMerge.edges) + 1)..Len(graph.edges) :
         EdgeId(graph.edges[i]) \notin edgeIds(BeforeMerge)

\* a payload was merged that carries a node and an edge the graph had, both
\* with other attributes, and a node and an edge it had not
C34_Witness ==
  /\ stage = "merged"
  /\ \E i \in 1..Len(newNodes), j \in 1..Len(BeforeMerge.nodes) :
       /\ newNodes[i].id = BeforeMerge.nodes[j].id
       /\ newNodes[i].id # expandedNodeId
       /\ newNodes[i] # BeforeMerge.nodes[j]
  /\ \E i \in 1..Len(newEdges), j \in 1..Len(BeforeMerge.edges) :
       /\ EdgeId(newEdges[i]) = EdgeId(BeforeMerge.edges[j])
       /\ newEdges[i] # BeforeMerge.edges[j]
  /\ Len(graph.nodes) > Len(BeforeMerge.nodes)
  /\ Len(graph.edges) > Len(BeforeMerge.edges)

\* C35: every edge of a built graph has both of its endpoints among the
\* nodes of the graph: a relationship whose target artist is not among the
\* related artists gives no edge.
C35_EdgesHaveEndpoints ==
  stage = "built" =>
    \A i \in 1..Len(graph.edges) :
      /\ graph.edges[i].sourceId \in nodeIds(graph)
      /\ graph.edges[i].targetId \in nodeIds(graph)

\* the relationships of the payload that lead to e with the generic type
GenericTo(e) ==
  {j \in 1..Len(payload) : payload[j].target = e /\ payload[j].type = "collaboration"}

\* the rows that lead to e and whose type is mapped to the generic type by
\* name ("collaboration", "vocal", "instrument")
NamedGenericTo(e) ==
  {i \in 1..Len(rows) :
     /\ rows[i].entity1_gid = e
     /\ toLowerCase(rows[i].link_type_name) \in DOMAIN typeMap
     /\ typeMap[toLowerCase(rows[i].link_type_name)] = "collaboration"}

\* the rows that lead to e and whose type the mapping does not know
UnrecognizedTo(e) ==
  {i \in 1..Len(rows) :
     rows[i].entity1_gid = e /\ toLowerCase(rows[i].link_type_name) \notin DOMAIN typeMap}

\* C36 (as claimed): no row whose type is not a recognized one is dropped:
\* each of them is in the payload as a "collaboration".
C36_UnrecognizedKept ==
  mapperStage = "returned" =>
    \A e \in RelatedGids :
      Cardinality(GenericTo(e)) = Cardinality(NamedGenericTo(e)) + Cardinality(UnrecognizedTo(e))

\* the rows that lead to e and whose type is neither known to the mapping
\* nor on the skip list
UnlistedTo(e) ==
  {i \in UnrecognizedTo(e) : toLowerCase(rows[i].link_type_name) \notin skipTypes}

\* C36 (amended): a row whose type is neither mapped nor on the skip list
\* ("tribute", "is person", "named after") is in the payload as a
\* "collaboration"; the rows of the skipped types, and only they, are left
\* out of the payload.
C36_UnlistedKept ==
  mapperStage = "returned" =>
    /\ \A e \in RelatedGids :
         Cardinality(GenericTo(e)) = Cardinality(NamedGenericTo(e)) + Cardinality(UnlistedTo(e))
    /\ Len(payload) =
         Cardinality({i \in 1..Len(rows) : toLowerCase(rows[i].link_type_name) \notin skipTypes})

\* a result set with a row of an unlisted type, a row of a skipped type and
\* a row of a mapped type written with capitals has been mapped
C36_Witness ==
  /\ mapperStage = "returned"
  /\ \E i, j, k \in 1..Len(rows) :
       /\ rows[i].link_type_name = "teacher"
       /\ rows[j].link_type_name = "tribute"
       /\ rows[k].link_type_name = "Member of band"
  /\ \E j \in 1..Len(payload) : payload[j].type = "collaboration"
  /\ \E j \in 1..Len(payload) : payload[j].type = "member_of"
  /\ Len(payload) = Len(rows) - 1

\* what the hook returns to the component
Shown == << suggestions, error, isLoading >>

\* C40: a step in which a request settles changes the suggestions, the
\* error or the loading flag only if the request is the one made for the
\* query of the last render; the outcome of a request made for an earlier
\* query, also for an earlier query of the same text, changes none of them,
\* and neither does the rejection of the request a new query aborts: when
\* the query changes, what is shown is cleared for a query that is too
\* short and left as it is otherwise.
C40_OnlyLatestQueryUpdates ==
  /\ [][\A t \in 1..Len(fetches) :
          (edits' = edits /\ fetches' = Without(fetches, t) /\ Shown' # Shown)
          => (fetches[t].gen = edits /\ fetches[t].query = query)]_vars
  /\ [][edits' # edits
          => Shown' = IF TooShort(query') THEN << << >>, NoError, FALSE >> ELSE Shown]_vars

\* the user has gone back to a text they had typed before, the request of
\* the first time was dropped and the answer to the last request is shown
C40_Witness ==
  /\ edits = MaxEdits
  /\ fetches = << >>
  /\ \E d \in discarded : d.query = query /\ d.gen < edits
  /\ suggestions = ArtistsFor(query)
  /\ ~isLoading

====
